---- MODULE Spec2Model ----
(***************************************************************************)
(* State-machine model of LocationBot (src/main.py): the geocoding         *)
(* resolver and its cache, the distance resolver and its anti-regression   *)
(* cache, the stop tracker, and the per-group auto-update scheduler.       *)
(*                                                                         *)
(* Conventions                                                             *)
(*  - Python dicts are functions whose DOMAIN is the set of keys present.  *)
(*  - datetime.now() is the variable now, in whole seconds.                *)
(*  - Python None is NoneLL (<<>>) for a coordinate pair and a record      *)
(*    with ok = FALSE for a result dictionary.                             *)
(*  - Distances in miles are kept in thousandths of a mile, rounded down; *)
(*    durations in whole seconds.                                          *)
(*  - Speeds are kept in tenths of a mph ("65.2 mph" is 652).              *)
(***************************************************************************)
EXTENDS Integers, Sequences, FiniteSets, TLC

\* ------------------------------------------------------------------ bounds
NumChats == 2
MaxTimeStop == 3600
MaxTimeDist == 60
MaxTimeGeo == 5400
MaxTimeSched == 7200
MaxTimeConcurrent == 14400
MaxTasks == 3
MaxHandlers == 2
MaxJobs == 16
MaxTimeFetch == 7200
MaxTimeTick == 18000
NumDrivers == 3
MaxDurationMinutes == 95
MaxTimeMemoKey == 30
MaxTimeGate == 7200
MaxTimeAlert == 8100
MaxGateJobs == 9
MaxGateTasks == 2

\* ------------------------------------------------------- program constants
distance_cache_duration == 60
geocoding_cache_duration == 3600
extended_stop_threshold == 2700
auto_update_interval == 7200
cache_duration == 15
selenium_permits == 8
max_workers == 15

Chats == 1..NumChats
TaskIds == 1..MaxTasks
HandlerIds == 1..MaxHandlers

\* ------------------------------------------------------------ dict helpers
EmptyDict == <<>>
DictSet(d, k, v) == [x \in DOMAIN d \cup {k} |-> IF x = k THEN v ELSE d[x]]
DictDel(d, k) == [x \in DOMAIN d \ {k} |-> d[x]]

NoneLL == <<>>

\* ------------------------------------------------------------------- state
VARIABLES
  now,                               \* wall clock read by datetime.now()
  gmaps,                             \* self.gmaps is a client (TRUE) or None
  concurrent_updates,                \* the application processes updates concurrently
  chat_to_driver,                    \* {chat_id: driver}
  drivers_config,                    \* {driver name: telegram_group_id} of drivers_config['drivers']
  gmaps_distance_matrix_available,   \* self.gmaps_distance_matrix_available
  geocoding_cache,                   \* {address: (lat, lon, timestamp)}
  distance_cache,                    \* {(chat_id, destination): {...}}
  driver_stop_times,                 \* {eld_url: {stopped_since, location, notified}}
  cache,                             \* {cache_key: (data, timestamp)}
  selenium_semaphore,                \* free permits of self.selenium_semaphore
  abandoned_jobs,                    \* workers of the executor whose coroutine was cancelled
  executor,                          \* jobs of self.executor submitted by other callers
  group_destinations,                \* {chat_id: destination}
  group_update_tasks,                \* {chat_id: task}
  tasks,                             \* the tasks created so far, by identity
  handlers,                          \* the handlers of the application
  provider_resolved,                 \* history: per address, the latest resolution a provider answered
  last                               \* the call made by the latest step, its inputs and what it returned

config_vars == <<gmaps, concurrent_updates, chat_to_driver, drivers_config>>
data_vars == <<gmaps_distance_matrix_available, geocoding_cache, distance_cache,
          driver_stop_times, provider_resolved>>
telemetry_vars == <<cache, selenium_semaphore, abandoned_jobs, executor>>
table_vars == <<group_destinations, group_update_tasks, tasks>>
sched_vars == <<table_vars, handlers>>
vars == <<now, config_vars, data_vars, telemetry_vars, sched_vars, last>>

\* =================================================================== clock
\* Time passes between calls; d is the amount, max the horizon explored.
Advance(d, max) ==
  /\ now + d <= max
  /\ now' = now + d
  /\ last' = [op |-> "advance"]
  /\ UNCHANGED <<config_vars, data_vars, telemetry_vars, sched_vars>>

\* ============================================================ StopTracker
ELD_URLS == {"eld/1", "eld/2"}
SpeedStrings == {"0.0 mph", "65.2 mph", "N/A", "Error"}
Locations == {"Albany, NY", "Hudson, NY"}

\* float(speed_str.replace(' mph', '').replace(',', '')) in tenths of a mph;
\* "ValueError" when the text is no number.
ParseSpeed(speed_str) ==
  CASE speed_str = "0.0 mph" -> 0
    [] speed_str = "65.2 mph" -> 652
    [] OTHER -> -1

\* Mutant: a speed that cannot be parsed is not a speed of 0.
get_driver_status_UnknownMoving(driver_data) ==
  LET v == ParseSpeed(driver_data.speed) IN
  IF v > 0 THEN [status |-> "Driving", speed |-> v]
  ELSE IF v = 0 THEN [status |-> "Stopped", speed |-> v]
  ELSE [status |-> "Unknown", speed |-> v]

get_driver_status(driver_data) ==
  LET v == ParseSpeed(driver_data.speed) IN
  IF v = -1 THEN [status |-> "Unknown", speed |-> 0]
  ELSE IF v > 0 THEN [status |-> "Driving", speed |-> v]
  ELSE [status |-> "Stopped", speed |-> v]

\* Mutant: every zero-speed observation restarts the episode.
track_driver_stop_time_Restart(dst, eld_url, driver_data, t) ==
  LET speed == get_driver_status(driver_data).speed IN
  IF speed = 0
  THEN DictSet(dst, eld_url, [stopped_since |-> t,
                              location |-> driver_data.location,
                              notified |-> FALSE])
  ELSE DictDel(dst, eld_url)

\* Mutant: a reading of a driver who is still stopped clears the mark of the
\* alert.
track_driver_stop_time_ClearsMark(dst, eld_url, driver_data, t) ==
  LET speed == get_driver_status(driver_data).speed IN
  IF speed = 0
  THEN IF eld_url \notin DOMAIN dst
       THEN DictSet(dst, eld_url, [stopped_since |-> t,
                                   location |-> driver_data.location,
                                   notified |-> FALSE])
       ELSE [dst EXCEPT ![eld_url].location = driver_data.location,
                        ![eld_url].notified = FALSE]
  ELSE IF eld_url \in DOMAIN dst THEN DictDel(dst, eld_url) ELSE dst

\* The stop table after track_driver_stop_time(eld_url, driver_data) at time t.
track_driver_stop_time(dst, eld_url, driver_data, t) ==
  LET speed == get_driver_status(driver_data).speed IN
  IF speed = 0
  THEN IF eld_url \notin DOMAIN dst
       THEN DictSet(dst, eld_url, [stopped_since |-> t,
                                   location |-> driver_data.location,
                                   notified |-> FALSE])
       ELSE [dst EXCEPT ![eld_url].location = driver_data.location]
  ELSE IF eld_url \in DOMAIN dst THEN DictDel(dst, eld_url) ELSE dst

\* Mutant: the alert is reported but the episode is not marked as notified.
check_extended_stop_NoMark(dst, eld_url, t) ==
  IF eld_url \notin DOMAIN dst
  THEN [triggered |-> FALSE, minutes |-> -1, stop_times |-> dst]
  ELSE LET stop_duration == t - dst[eld_url].stopped_since IN
       IF stop_duration >= extended_stop_threshold /\ ~dst[eld_url].notified
       THEN [triggered |-> TRUE, minutes |-> stop_duration \div 60, stop_times |-> dst]
       ELSE [triggered |-> FALSE, minutes |-> -1, stop_times |-> dst]

\* Mutant: any stop that was not notified yet triggers, however short.
check_extended_stop_NoThreshold(dst, eld_url, t) ==
  IF eld_url \notin DOMAIN dst
  THEN [triggered |-> FALSE, minutes |-> -1, stop_times |-> dst]
  ELSE LET stop_duration == t - dst[eld_url].stopped_since IN
       IF ~dst[eld_url].notified
       THEN [triggered |-> TRUE, minutes |-> stop_duration \div 60,
             stop_times |-> [dst EXCEPT ![eld_url].notified = TRUE]]
       ELSE [triggered |-> FALSE, minutes |-> -1, stop_times |-> dst]

\* check_extended_stop(eld_url) at time t: what it returns and the stop table after.
check_extended_stop(dst, eld_url, t) ==
  IF eld_url \notin DOMAIN dst
  THEN [triggered |-> FALSE, minutes |-> -1, stop_times |-> dst]
  ELSE LET stop_duration == t - dst[eld_url].stopped_since IN
       IF stop_duration >= extended_stop_threshold /\ ~dst[eld_url].notified
       THEN [triggered |-> TRUE, minutes |-> stop_duration \div 60,
             stop_times |-> [dst EXCEPT ![eld_url].notified = TRUE]]
       ELSE [triggered |-> FALSE, minutes |-> -1, stop_times |-> dst]

\* One observation of a source: a call of track_driver_stop_time.
Track(eld_url, speed_str, location) ==
  \E driver_data \in {[speed |-> speed_str, location |-> location]} :
  /\ driver_stop_times' = track_driver_stop_time(driver_stop_times, eld_url, driver_data, now)
  /\ last' = [op |-> "track", eld_url |-> eld_url, speed_str |-> speed_str,
              status |-> get_driver_status(driver_data).status,
              speed |-> get_driver_status(driver_data).speed, location |-> location]
  /\ UNCHANGED <<now, config_vars, gmaps_distance_matrix_available, geocoding_cache,
                 distance_cache, provider_resolved, telemetry_vars, sched_vars>>

\* One call of check_extended_stop.
CheckStop(eld_url) ==
  \E r \in {check_extended_stop(driver_stop_times, eld_url, now)} :
  /\ driver_stop_times' = r.stop_times
  /\ last' = [op |-> "check", eld_url |-> eld_url, triggered |-> r.triggered,
              minutes |-> r.minutes]
  /\ UNCHANGED <<now, config_vars, gmaps_distance_matrix_available, geocoding_cache,
                 distance_cache, provider_resolved, telemetry_vars, sched_vars>>

\* ============================================================ GeoResolver
\* The addresses of the model, after sanitize_address.
Addresses == {"Albany, NY", "12 Main St, Troy, NY"}
\* Coordinates a provider may answer with, in hundredths of a degree.
Coords == {<<4265, -7375>>, <<4273, -7369>>}

\* sanitize_address on the raw texts of the model: the trailing run of
\* characters other than letters, digits, commas and spaces is removed.
sanitize_address(address) ==
  CASE address = "12 Main St, Troy, NY." -> "12 Main St, Troy, NY"
    [] OTHER -> address

\* parse_and_clean_address on the addresses of the model: the variations in
\* the order the source appends them, duplicates removed.
parse_and_clean_address(address) ==
  CASE address = "12 Main St, Troy, NY" ->
         <<"12 Main St, Troy, NY", "Main St, Troy, NY", "Troy, NY">>
    [] address = "" -> <<>>
    [] OTHER -> <<address>>

\* re.search(r'(\d+)\s+([^,]+),\s*([^,]+),\s*([A-Z]{2})', addr_variant)
StructuredMatch(addr_variant) == addr_variant = "12 Main St, Troy, NY"
\* re.search(r'([^,]+),\s*([A-Z]{2})', addr_variant)
CityStateMatch(addr_variant) ==
  addr_variant \in {"Albany, NY", "Hudson, NY", "12 Main St, Troy, NY",
                    "Main St, Troy, NY", "Troy, NY"}

ProviderCalls(provider, variants) ==
  [i \in 1..Len(variants) |-> [provider |-> provider, query |-> variants[i]]]

\* Mutant: Nominatim is asked before Google Maps.
GeocodeAttempts_NominatimFirst(address, has_gmaps) ==
  LET vs == parse_and_clean_address(address) IN
  ProviderCalls("nominatim", vs)
    \o (IF has_gmaps THEN ProviderCalls("google", vs) ELSE <<>>)
    \o ProviderCalls("nominatim_structured", SelectSeq(vs, StructuredMatch))
    \o ProviderCalls("nominatim_city", SelectSeq(vs, CityStateMatch))

\* The provider requests geocode_address makes when none returns a result, in
\* order: Google Maps (if there is a client), Nominatim free text, Nominatim
\* structured, Nominatim city and state.
GeocodeAttempts(address, has_gmaps) ==
  LET vs == parse_and_clean_address(address) IN
  (IF has_gmaps THEN ProviderCalls("google", vs) ELSE <<>>)
    \o ProviderCalls("nominatim", vs)
    \o ProviderCalls("nominatim_structured", SelectSeq(vs, StructuredMatch))
    \o ProviderCalls("nominatim_city", SelectSeq(vs, CityStateMatch))

\* Mutant: an entry is served up to and including the age geocoding_cache_duration.
get_cached_geocoding_Inclusive(gc, address, t) ==
  IF address \in DOMAIN gc
  THEN IF t - gc[address].timestamp <= geocoding_cache_duration
       THEN [lat_lon |-> gc[address].lat_lon, cache |-> gc]
       ELSE [lat_lon |-> NoneLL, cache |-> DictDel(gc, address)]
  ELSE [lat_lon |-> NoneLL, cache |-> gc]

\* get_cached_geocoding(address) at time t: what it returns and the cache after.
get_cached_geocoding(gc, address, t) ==
  IF address \in DOMAIN gc
  THEN IF t - gc[address].timestamp < geocoding_cache_duration
       THEN [lat_lon |-> gc[address].lat_lon, cache |-> gc]
       ELSE [lat_lon |-> NoneLL, cache |-> DictDel(gc, address)]
  ELSE [lat_lon |-> NoneLL, cache |-> gc]

set_geocoding_cache(gc, address, lat_lon, t) ==
  DictSet(gc, address, [lat_lon |-> lat_lon, timestamp |-> t])

\* Mutant: the result is cached under the variant that a provider answered.
geocode_address_KeyByVariant(gc, address, has_gmaps, t, win, coord) ==
  LET c == get_cached_geocoding(gc, address, t)
      attempts == GeocodeAttempts(address, has_gmaps)
  IN  IF c.lat_lon # NoneLL
      THEN [lat_lon |-> c.lat_lon, cache |-> c.cache, calls |-> <<>>]
      ELSE IF win \in 1..Len(attempts)
      THEN [lat_lon |-> coord,
            cache |-> set_geocoding_cache(c.cache, attempts[win].query, coord, t),
            calls |-> SubSeq(attempts, 1, win)]
      ELSE [lat_lon |-> NoneLL, cache |-> c.cache, calls |-> attempts]

\* geocode_address(address) at time t. The providers' behaviour is the input:
\* win is the position, in GeocodeAttempts, of the first request that returns
\* a result (0: every request fails or returns nothing), coord the first
\* result of that request. Returns the coordinates (or NoneLL), the cache
\* after the call and the provider requests made.
geocode_address(gc, address, has_gmaps, t, win, coord) ==
  LET c == get_cached_geocoding(gc, address, t)
      attempts == GeocodeAttempts(address, has_gmaps)
  IN  IF c.lat_lon # NoneLL
      THEN [lat_lon |-> c.lat_lon, cache |-> c.cache, calls |-> <<>>]
      ELSE IF win \in 1..Len(attempts)
      THEN [lat_lon |-> coord,
            cache |-> set_geocoding_cache(c.cache, address, coord, t),
            calls |-> SubSeq(attempts, 1, win)]
      ELSE [lat_lon |-> NoneLL, cache |-> c.cache, calls |-> attempts]

\* The history of resolutions answered by a provider, after a call.
RecordResolved(pr, address, r, t) ==
  IF r.lat_lon # NoneLL /\ Len(r.calls) > 0
  THEN DictSet(pr, address, [lat_lon |-> r.lat_lon, at |-> t])
  ELSE pr

\* One call of geocode_address.
Geocode(address, win, coord) ==
  \E r \in {geocode_address(geocoding_cache, address, gmaps, now, win, coord)} :
  /\ geocoding_cache' = r.cache
  /\ provider_resolved' = RecordResolved(provider_resolved, address, r, now)
  /\ last' = [op |-> "geocode", address |-> address, lat_lon |-> r.lat_lon,
              ncalls |-> Len(r.calls),
              age |-> IF address \in DOMAIN geocoding_cache
                      THEN now - geocoding_cache[address].timestamp ELSE -1]
  /\ UNCHANGED <<now, config_vars, gmaps_distance_matrix_available, distance_cache,
                 driver_stop_times, telemetry_vars, sched_vars>>

\* Mutant: a request that raises ends the resolution.
FirstResult_StopAtError(outcomes) ==
  IF \E i \in 1..Len(outcomes) :
       outcomes[i] = "result" /\ \A j \in 1..(i - 1) : outcomes[j] = "empty"
  THEN CHOOSE i \in 1..Len(outcomes) :
         outcomes[i] = "result" /\ \A j \in 1..(i - 1) : outcomes[j] = "empty"
  ELSE 0

\* The loops of geocode_address over the outcomes of its requests, each
\* "error" (the request raises: except Exception, continue), "empty" (no
\* result: the loop goes on) or "result" (set_geocoding_cache and return):
\* the position of the request that ends the loops, 0 when none does.
FirstResult(outcomes) ==
  IF \E i \in 1..Len(outcomes) : outcomes[i] = "result"
  THEN CHOOSE i \in 1..Len(outcomes) :
         outcomes[i] = "result" /\ \A j \in 1..(i - 1) : outcomes[j] # "result"
  ELSE 0

\* One call of geocode_address, given the outcome of each request it may make.
GeocodeAttempt(address, outcomes, coord) ==
  \E r \in {geocode_address(geocoding_cache, address, gmaps, now,
                            FirstResult(outcomes), coord)} :
  /\ geocoding_cache' = r.cache
  /\ provider_resolved' = RecordResolved(provider_resolved, address, r, now)
  /\ last' = [op |-> "geocode_attempts", address |-> address, outcomes |-> outcomes,
              coord |-> coord, lat_lon |-> r.lat_lon, ncalls |-> Len(r.calls),
              calls |-> r.calls]
  /\ UNCHANGED <<now, config_vars, gmaps_distance_matrix_available, distance_cache,
                 driver_stop_times, telemetry_vars, sched_vars>>

\* ======================================================== DistanceResolver
\* chat_id=None of calculate_distance_and_time.
NoChat == 0
\* A result dictionary is a record with ok = TRUE; None is NoResult.
NoResult == [ok |-> FALSE]

\* Driving distances a provider may report, in meters (about 100 and 120 miles).
Meters == {160934, 193121}
\* Driving durations a provider may report, in seconds.
Seconds == {5400}
\* The outcomes of gmaps.distance_matrix: status OK with an OK element, status
\* OK with a ZERO_RESULTS element, the statuses REQUEST_DENIED,
\* OVER_QUERY_LIMIT and UNKNOWN_ERROR, and an exception raised by the call.
GmOutcomes == {"OK", "ZERO_RESULTS", "REQUEST_DENIED", "OVER_QUERY_LIMIT",
               "UNKNOWN_ERROR", "EXCEPTION"}

\* distance_meters * 0.000621371, in thousandths of a mile (the product is
\* split so that it stays within 32 bits).
MetersToMiles(distance_meters) ==
  ((distance_meters \div 1000) * 621371) \div 1000
    + ((distance_meters % 1000) * 621371) \div 1000000

\* Mutant: a route of the routing service is dropped.
osrm_distance_NoRoute(response) == NoResult

\* osrm_distance: response is <<>> when the request fails or has no routes,
\* else <<distance_meters, duration_seconds>>.
osrm_distance(response) ==
  IF response = <<>> THEN NoResult
  ELSE [ok |-> TRUE, distance_miles |-> MetersToMiles(response[1]),
        duration |-> response[2], method |-> "OSRM API"]

\* haversine_distance with r = 3959 on the coordinates of the model
\* (6.312 miles between the two places); the duration at 60 mph is as many
\* minutes as miles.
haversine_distance(p1, p2) ==
  LET distance == IF p1 = p2 THEN 0 ELSE 6312 IN
  [ok |-> TRUE, distance_miles |-> distance, duration |-> (distance * 60) \div 1000]

\* Mutant: no rejection at all.
is_distance_valid_AlwaysValid(dc, chat_id, destination, new_distance, driver_location, t) ==
  [valid |-> TRUE,
   cache |-> DictSet(dc, <<chat_id, destination>>,
                     [distance |-> new_distance, timestamp |-> t,
                      driver_location |-> driver_location])]

\* Mutant: a rejection refreshes the timestamp of the cached entry.
is_distance_valid_TouchOnReject(dc, chat_id, destination, new_distance, driver_location, t) ==
  LET key == <<chat_id, destination>>
      entry == [distance |-> new_distance, timestamp |-> t,
                driver_location |-> driver_location]
  IN  IF key \notin DOMAIN dc
      THEN [valid |-> TRUE, cache |-> DictSet(dc, key, entry)]
      ELSE IF t - dc[key].timestamp < distance_cache_duration
              /\ new_distance > dc[key].distance
      THEN [valid |-> FALSE, cache |-> [dc EXCEPT ![key].timestamp = t]]
      ELSE [valid |-> TRUE, cache |-> DictSet(dc, key, entry)]

\* Mutant: an equal distance is rejected too.
is_distance_valid_RejectEqual(dc, chat_id, destination, new_distance, driver_location, t) ==
  LET key == <<chat_id, destination>>
      entry == [distance |-> new_distance, timestamp |-> t,
                driver_location |-> driver_location]
  IN  IF key \notin DOMAIN dc
      THEN [valid |-> TRUE, cache |-> DictSet(dc, key, entry)]
      ELSE IF t - dc[key].timestamp < distance_cache_duration
              /\ new_distance >= dc[key].distance
      THEN [valid |-> FALSE, cache |-> dc]
      ELSE [valid |-> TRUE, cache |-> DictSet(dc, key, entry)]

\* Mutant: an entry of age exactly distance_cache_duration still rejects.
is_distance_valid_InclusiveTTL(dc, chat_id, destination, new_distance, driver_location, t) ==
  LET key == <<chat_id, destination>>
      entry == [distance |-> new_distance, timestamp |-> t,
                driver_location |-> driver_location]
  IN  IF key \notin DOMAIN dc
      THEN [valid |-> TRUE, cache |-> DictSet(dc, key, entry)]
      ELSE IF t - dc[key].timestamp <= distance_cache_duration
              /\ new_distance > dc[key].distance
      THEN [valid |-> FALSE, cache |-> dc]
      ELSE [valid |-> TRUE, cache |-> DictSet(dc, key, entry)]

\* is_distance_valid at time t: what it returns and the distance cache after.
is_distance_valid(dc, chat_id, destination, new_distance, driver_location, t) ==
  LET key == <<chat_id, destination>>
      entry == [distance |-> new_distance, timestamp |-> t,
                driver_location |-> driver_location]
  IN  IF key \notin DOMAIN dc
      THEN [valid |-> TRUE, cache |-> DictSet(dc, key, entry)]
      ELSE IF t - dc[key].timestamp < distance_cache_duration
              /\ new_distance > dc[key].distance
      THEN [valid |-> FALSE, cache |-> dc]
      ELSE [valid |-> TRUE, cache |-> DictSet(dc, key, entry)]

\* Mutant: no call is checked.
Validate_Unchecked(dc, chat_id, destination, new_distance, driver_location, t) ==
  [valid |-> TRUE, cache |-> dc]

\* "chat_id is not None and not self.is_distance_valid(...)": the check is
\* made, and the cache touched, only for a call that carries a chat_id.
Validate(dc, chat_id, destination, new_distance, driver_location, t) ==
  IF chat_id # NoChat
  THEN is_distance_valid(dc, chat_id, destination, new_distance, driver_location, t)
  ELSE [valid |-> TRUE, cache |-> dc]

\* Mutant: the distance matrix is asked whenever there is a client.
UseMatrix_IgnoreFlag(has_gmaps, available) == has_gmaps

\* "if self.gmaps and self.gmaps_distance_matrix_available": the distance
\* matrix is asked.
UseMatrix(has_gmaps, available) == has_gmaps /\ available

\* Mutant: a quota answer disables the distance matrix as well.
AvailableAfter_QuotaDisables(available, gm) ==
  IF gm \in {"REQUEST_DENIED", "EXCEPTION", "OVER_QUERY_LIMIT"} THEN FALSE ELSE available

\* self.gmaps_distance_matrix_available after the distance matrix answered
\* gm: REQUEST_DENIED and an exception of the call set it to False.
AvailableAfter(available, gm) ==
  IF gm \in {"REQUEST_DENIED", "EXCEPTION"} THEN FALSE ELSE available

\* Mutant: only the origin is tested.
GeocodeFailed_OriginOnly(origin_lat_lon, dest_lat_lon) == origin_lat_lon = NoneLL

\* "if origin_lat is None or dest_lat is None"
GeocodeFailed(origin_lat_lon, dest_lat_lon) ==
  origin_lat_lon = NoneLL \/ dest_lat_lon = NoneLL

\* calculate_distance_and_time at time t, from the state st = [distance_cache,
\* geocoding_cache, available, has_gmaps]. The providers' behaviour is the
\* input env: gm (a GmOutcomes value), gm_meters, gm_seconds, the geocoding
\* inputs win_o, coord_o, win_d, coord_d (see geocode_address) and osrm (see
\* osrm_distance). Returns the result, the strategy that computed a distance
\* and that distance ("none" and -1: none did), whether the geocoding of the
\* fallback path found both places ("skipped": no geocoding), the outcome
\* of the distance matrix ("NOT_CALLED": not asked), the state after the
\* call and the provider calls made.
calculate_distance_and_time(st, origin_raw, destination_raw, chat_id, env, t) ==
  LET origin_address == sanitize_address(origin_raw)
      destination_address == sanitize_address(destination_raw)
      use_gm == UseMatrix(st.has_gmaps, st.available)
      gm == IF use_gm THEN env.gm ELSE "NOT_CALLED"
      gm_calls == IF use_gm THEN <<"distance_matrix">> ELSE <<>>
      available1 == IF use_gm THEN AvailableAfter(st.available, env.gm) ELSE st.available
      Out(result, computed, strategy, geo, dc, gc, available, calls) ==
        [result |-> result, computed |-> computed, strategy |-> strategy,
         geo |-> geo, gm |-> gm, distance_cache |-> dc,
         geocoding_cache |-> gc, available |-> available, calls |-> calls]
  IN
  IF use_gm /\ env.gm = "OK"
  THEN LET distance_miles == MetersToMiles(env.gm_meters)
           v == Validate(st.distance_cache, chat_id, destination_address,
                         distance_miles, origin_address, t)
       IN  IF ~v.valid
           THEN Out(NoResult, distance_miles, "matrix", "skipped", v.cache,
                    st.geocoding_cache, st.available, gm_calls)
           ELSE Out([ok |-> TRUE, distance_miles |-> distance_miles,
                     duration |-> env.gm_seconds,
                     method |-> "Google Maps Distance Matrix API"],
                    distance_miles, "matrix", "skipped", v.cache,
                    st.geocoding_cache, st.available, gm_calls)
  ELSE
  LET go == geocode_address(st.geocoding_cache, origin_address, st.has_gmaps, t,
                            env.win_o, env.coord_o)
      gd == geocode_address(go.cache, destination_address, st.has_gmaps, t,
                            env.win_d, env.coord_d)
      geo_calls == gm_calls \o [i \in 1..Len(go.calls) |-> go.calls[i].provider]
                            \o [i \in 1..Len(gd.calls) |-> gd.calls[i].provider]
      geo == IF go.lat_lon = NoneLL \/ gd.lat_lon = NoneLL THEN "failed" ELSE "found"
  IN
  IF GeocodeFailed(go.lat_lon, gd.lat_lon)
  THEN Out(NoResult, -1, "none", geo, st.distance_cache, gd.cache, available1, geo_calls)
  ELSE
  LET osrm_result == osrm_distance(env.osrm) IN
  IF osrm_result.ok
  THEN LET v == Validate(st.distance_cache, chat_id, destination_address,
                         osrm_result.distance_miles, origin_address, t)
       IN  Out(IF v.valid THEN osrm_result ELSE NoResult, osrm_result.distance_miles,
               "osrm", geo, v.cache, gd.cache, available1, geo_calls \o <<"osrm">>)
  ELSE
  LET haversine_result == haversine_distance(go.lat_lon, gd.lat_lon)
      distance == haversine_result.distance_miles
      v == Validate(st.distance_cache, chat_id, destination_address,
                    distance, origin_address, t)
  IN  Out(IF v.valid
          THEN [ok |-> TRUE, distance_miles |-> distance,
                duration |-> haversine_result.duration,
                method |-> "Haversine (straight-line)"]
          ELSE NoResult,
          distance, "haversine", geo, v.cache, gd.cache, available1,
          geo_calls \o <<"osrm">>)

\* The provider behaviours explored for one call: the distance-matrix outcomes
\* gms, and the pairs wins of geocoding inputs <<win_o, win_d>> (a request
\* list is answered at its first request, 1, or not at all, 0) by a provider
\* that knows one place per address. Inputs the call cannot read are fixed:
\* the routing inputs when the distance matrix answers OK or a geocoding
\* fails, the distance-matrix outcome when that provider is not called
\* ("NOT_CALLED").
PlaceOf(address) == IF address = "Albany, NY" THEN <<4265, -7375>> ELSE <<4273, -7369>>
ResolveEnv(g, m, s, wo, wd, o, origin_raw, destination_raw) ==
  [gm |-> g, gm_meters |-> m, gm_seconds |-> s, win_o |-> wo,
   coord_o |-> PlaceOf(sanitize_address(origin_raw)), win_d |-> wd,
   coord_d |-> PlaceOf(sanitize_address(destination_raw)), osrm |-> o]
ResolveEnvs(gms, wins, origin_raw, destination_raw) ==
  LET use_gm == UseMatrix(gmaps, gmaps_distance_matrix_available)
      m0 == CHOOSE m \in Meters : TRUE
      s0 == CHOOSE x \in Seconds : TRUE
      misses == IF use_gm THEN gms \ {"OK"} ELSE {"NOT_CALLED"}
  IN  {ResolveEnv("OK", m, s, 0, 0, <<>>, origin_raw, destination_raw) :
         m \in IF use_gm /\ "OK" \in gms THEN Meters ELSE {}, s \in Seconds}
      \cup {ResolveEnv(g, m0, s0, w[1], w[2], <<>>, origin_raw, destination_raw) :
              g \in misses, w \in wins}
      \cup {ResolveEnv(g, m0, s0, 1, 1, o, origin_raw, destination_raw) :
              g \in misses, o \in IF <<1, 1>> \in wins THEN Meters \X Seconds ELSE {}}

\* What the distance cache holds for a key before a call (-1: nothing).
CachedDistance(dc, chat_id, destination) ==
  IF <<chat_id, destination>> \in DOMAIN dc THEN dc[<<chat_id, destination>>].distance ELSE -1
CachedAge(dc, chat_id, destination, t) ==
  IF <<chat_id, destination>> \in DOMAIN dc THEN t - dc[<<chat_id, destination>>].timestamp ELSE -1

\* What the routing service answered in a call: it was not asked, it had no
\* route (or failed), or it returned a route.
OsrmOutcome(calls, response) ==
  IF \A i \in 1..Len(calls) : calls[i] # "osrm" THEN "NOT_CALLED"
  ELSE IF response = <<>> THEN "NO_ROUTE" ELSE "OK"

\* One call of calculate_distance_and_time.
Resolve(origin_raw, destination_raw, chat_id, env) ==
  \E r \in {calculate_distance_and_time(
              [distance_cache |-> distance_cache, geocoding_cache |-> geocoding_cache,
               available |-> gmaps_distance_matrix_available, has_gmaps |-> gmaps],
              origin_raw, destination_raw, chat_id, env, now)} :
  /\ distance_cache' = r.distance_cache
  /\ geocoding_cache' = r.geocoding_cache
  /\ gmaps_distance_matrix_available' = r.available
  /\ last' = [op |-> "resolve", chat_id |-> chat_id,
              destination |-> sanitize_address(destination_raw),
              origin |-> sanitize_address(origin_raw),
              computed |-> r.computed, ok |-> r.result.ok,
              distance |-> IF r.result.ok THEN r.result.distance_miles ELSE -1,
              strategy |-> r.strategy, geo |-> r.geo, gm |-> r.gm,
              osrm |-> OsrmOutcome(r.calls, env.osrm),
              cached |-> CachedDistance(distance_cache, chat_id, sanitize_address(destination_raw)),
              age |-> CachedAge(distance_cache, chat_id, sanitize_address(destination_raw), now)]
  /\ UNCHANGED <<now, config_vars, driver_stop_times, provider_resolved, telemetry_vars, sched_vars>>

\* ============================================================== telemetry
\* What extract_driver_data_ultra_fast can return: a moving driver, a stopped
\* driver, the offline marker, and the dictionary of its exception handler.
OfflineLocation == "Location not available (driver may be offline)"
DriverData ==
  {[speed |-> "65.2 mph", location |-> "Albany, NY"],
   [speed |-> "0.0 mph", location |-> "Albany, NY"],
   [speed |-> "N/A", location |-> OfflineLocation],
   [speed |-> "Error", location |-> "Error extracting data"]}
NoData == [speed |-> "", location |-> ""]

\* The test of the callers on driver_data['location'].
IsOffline(location) == location = "N/A" \/ location = OfflineLocation

\* get_eld_url_for_group(chat_id); "" is None.
get_eld_url_for_group(ctd, chat_id) ==
  IF chat_id \in DOMAIN ctd THEN ctd[chat_id].eld_url ELSE ""

\* f"location_{chat_id}_{eld_url}"
\* Mutant: the key names the source only.
CacheKey_BySource(chat_id, eld_url) == <<"location", NoChat, eld_url>>

CacheKey(chat_id, eld_url) == <<"location", chat_id, eld_url>>

\* get_cached_data(cache_key) at time t: the data (NoData is None) and the
\* cache after, an expired entry being removed.
get_cached_data(ch, cache_key, t) ==
  IF cache_key \in DOMAIN ch
  THEN IF t - ch[cache_key].timestamp < cache_duration
       THEN [data |-> ch[cache_key].data, cache |-> ch]
       ELSE [data |-> NoData, cache |-> DictDel(ch, cache_key)]
  ELSE [data |-> NoData, cache |-> ch]

set_cached_data(ch, cache_key, data, t) ==
  DictSet(ch, cache_key, [data |-> data, timestamp |-> t])

\* ========================================================= GroupScheduler
\* A task made by asyncio.create_task(group_auto_update_loop(chat_id)).
\* pc is where the coroutine is suspended:
\*   created        not yet run by the event loop
\*   sleep          in asyncio.sleep(auto_update_interval), until wake_at
\*   fetch_waiting  in run_in_executor, the worker before the semaphore
\*   fetch_running  in run_in_executor, the worker holding the semaphore
\*   fetched        the worker has returned, the coroutine not yet resumed
\*   alert          in send_message of the extended stop alert
\*   send           in send_message of the update
\*   done           the coroutine has returned or was cancelled
\* cancel is the pending cancellation request of Task.cancel(); started_at
\* is the time at which the coroutine began to run (history).
NewTask(chat_id) ==
  [chat_id |-> chat_id, pc |-> "created", cancel |-> FALSE, started_at |-> 0,
   wake_at |-> 0, destination |-> "", eld_url |-> "", driver_data |-> NoData]

\* Mutant: the loop does not sleep between two updates.
Sleeping_NoWait(task, t) ==
  [task EXCEPT !.pc = "sleep", !.wake_at = t,
               !.destination = "", !.eld_url = "", !.driver_data = NoData]

\* The loop is back in asyncio.sleep at time t.
Sleeping(task, t) ==
  [task EXCEPT !.pc = "sleep", !.wake_at = t + auto_update_interval,
               !.destination = "", !.eld_url = "", !.driver_data = NoData]

\* Mutant: an exception in an update ends the loop.
AfterFailure_Ends(task, t) ==
  [task EXCEPT !.pc = "done", !.cancel = FALSE, !.started_at = 0, !.wake_at = 0,
               !.destination = "", !.eld_url = "", !.driver_data = NoData]

\* process_group_update logs the exception and returns; the loop goes on to
\* its next asyncio.sleep.
AfterFailure(task, t) == Sleeping(task, t)

\* Mutant: the cancellation is swallowed and the task stays where it is.
Finished_Swallowed(task) == [task EXCEPT !.cancel = FALSE]

\* The loop has left its while loop, or the task was cancelled.
Finished(task) ==
  [task EXCEPT !.pc = "done", !.cancel = FALSE, !.started_at = 0, !.wake_at = 0,
               !.destination = "", !.eld_url = "", !.driver_data = NoData]

\* A handler of the application that is processing an update.
IdleHandler ==
  [pc |-> "idle", cmd |-> "", chat_id |-> 0, destination |-> "", task |-> 0,
   eld_url |-> "", driver_data |-> NoData]

\* Mutant: the entry is dropped and the task is left running.
stop_group_auto_update_NoCancel(tk, gut, chat_id) ==
  [suspended |-> FALSE, tasks |-> tk,
   table |-> IF chat_id \in DOMAIN gut THEN DictDel(gut, chat_id) ELSE gut, task |-> 0]

\* stop_group_auto_update(chat_id) up to its await: the task is cancelled and
\* the coroutine is suspended on it, unless the task is already done or the
\* table has no entry.
stop_group_auto_update(tk, gut, chat_id) ==
  IF chat_id \notin DOMAIN gut
  THEN [suspended |-> FALSE, tasks |-> tk, table |-> gut, task |-> 0]
  ELSE IF tk[gut[chat_id]].pc = "done"
       THEN [suspended |-> FALSE, tasks |-> tk, table |-> DictDel(gut, chat_id), task |-> 0]
       ELSE [suspended |-> TRUE, tasks |-> [tk EXCEPT ![gut[chat_id]].cancel = TRUE],
             table |-> gut, task |-> gut[chat_id]]

\* Mutant: the entry is left in the table.
stop_group_auto_update_resume_KeepsEntry(gut, chat_id) ==
  [raised |-> chat_id \notin DOMAIN gut, table |-> gut]

\* del self.group_update_tasks[chat_id] after the await: KeyError when the
\* entry is not there any more.
stop_group_auto_update_resume(gut, chat_id) ==
  IF chat_id \in DOMAIN gut
  THEN [raised |-> FALSE, table |-> DictDel(gut, chat_id)]
  ELSE [raised |-> TRUE, table |-> gut]

\* Mutant: the new loop is installed without stopping the previous one.
start_group_auto_update_NoStop(tk, gut, chat_id) ==
  [suspended |-> FALSE, tasks |-> Append(tk, NewTask(chat_id)),
   table |-> DictSet(gut, chat_id, Len(tk) + 1), task |-> 0]

\* start_group_auto_update(chat_id) up to its first suspension: either it is
\* suspended in stop_group_auto_update, or the new task is created and recorded.
start_group_auto_update(tk, gut, chat_id) ==
  LET s == stop_group_auto_update(tk, gut, chat_id) IN
  IF s.suspended THEN s
  ELSE [suspended |-> FALSE, tasks |-> Append(s.tasks, NewTask(chat_id)),
        table |-> DictSet(s.table, chat_id, Len(s.tasks) + 1), task |-> 0]

\* The tail of start_group_auto_update after stop_group_auto_update returned.
start_group_auto_update_resume(tk, gut, chat_id) ==
  [suspended |-> FALSE, tasks |-> Append(tk, NewTask(chat_id)),
   table |-> DictSet(gut, chat_id, Len(tk) + 1), task |-> 0]

\* The handler h after a call that may have suspended in stop_group_auto_update.
AfterCall(s, cmd, chat_id) ==
  IF s.suspended
  THEN [IdleHandler EXCEPT !.pc = "await_task", !.cmd = cmd, !.chat_id = chat_id,
                           !.task = s.task]
  ELSE IdleHandler

\* The application takes the next update: one at a time unless it was built
\* with concurrent_updates, and in the first free handler.
CanBegin(h) ==
  /\ handlers[h].pc = "idle"
  /\ \A k \in HandlerIds : k < h => handlers[k].pc # "idle"
  /\ concurrent_updates \/ \A k \in HandlerIds : handlers[k].pc = "idle"

\* ------------------------------------------------------------ the loop
\* Mutant: the loop makes its first update at once.
FirstSleep_Skipped(task, t) ==
  [task EXCEPT !.pc = "sleep", !.started_at = t, !.wake_at = t]

\* Mutant: a new loop first sleeps half the interval.
FirstSleep_HalfInterval(task, t) ==
  [Sleeping(task, t) EXCEPT !.started_at = t, !.wake_at = t + auto_update_interval \div 2]

\* group_auto_update_loop begins: the first thing it does is asyncio.sleep.
FirstSleep(task, t) == [Sleeping(task, t) EXCEPT !.started_at = t]

\* The event loop runs a new task up to its asyncio.sleep.
LoopStart(t) ==
  /\ t \in DOMAIN tasks
  /\ tasks[t].pc = "created" /\ ~tasks[t].cancel
  /\ tasks' = [tasks EXCEPT ![t] = FirstSleep(tasks[t], now)]
  /\ last' = [op |-> "loop_start", task |-> t, chat_id |-> tasks[t].chat_id]
  /\ UNCHANGED <<now, config_vars, data_vars, telemetry_vars, group_destinations,
                 group_update_tasks, handlers>>

\* Mutant: a cancelled tick takes its fetch down with it; the worker that
\* holds the slot is forgotten and never returns it.
LoopCancelled_DropsJob(t) ==
  /\ t \in DOMAIN tasks
  /\ tasks[t].pc # "done" /\ tasks[t].cancel
  /\ tasks' = [tasks EXCEPT ![t] = Finished(@)]
  /\ last' = [op |-> "loop_cancelled", task |-> t, chat_id |-> tasks[t].chat_id]
  /\ UNCHANGED <<now, config_vars, data_vars, cache, selenium_semaphore, abandoned_jobs, executor,
                 group_destinations, group_update_tasks, handlers>>

\* CancelledError is thrown into the task where it is suspended; the loop
\* breaks.  A worker that runs for it keeps running.
LoopCancelled(t) ==
  /\ t \in DOMAIN tasks
  /\ tasks[t].pc # "done" /\ tasks[t].cancel
  /\ tasks' = [tasks EXCEPT ![t] = Finished(@)]
  /\ abandoned_jobs' =
       IF tasks[t].pc = "fetch_waiting"
       THEN [abandoned_jobs EXCEPT !.waiting = @ + 1]
       ELSE IF tasks[t].pc = "fetch_running"
            THEN [abandoned_jobs EXCEPT !.running = @ + 1]
            ELSE abandoned_jobs
  /\ last' = [op |-> "loop_cancelled", task |-> t, chat_id |-> tasks[t].chat_id]
  /\ UNCHANGED <<now, config_vars, data_vars, cache, selenium_semaphore, executor, group_destinations,
                 group_update_tasks, handlers>>

\* Mutant: the update of a group without driver goes on to the extraction.
LoopWake_FetchUnbound(t) ==
  /\ t \in DOMAIN tasks
  /\ tasks[t].pc = "sleep" /\ ~tasks[t].cancel
  /\ now >= tasks[t].wake_at
  /\ \E task \in {tasks[t]} :
     tasks' =
       [tasks EXCEPT ![t] =
          IF task.chat_id \notin DOMAIN group_destinations THEN Finished(task)
          ELSE [task EXCEPT !.pc = "fetch_waiting",
                            !.destination = group_destinations[task.chat_id],
                            !.eld_url = get_eld_url_for_group(chat_to_driver, task.chat_id)]]
  /\ last' = [op |-> "loop_wake", task |-> t, chat_id |-> tasks[t].chat_id]
  /\ UNCHANGED <<now, config_vars, data_vars, telemetry_vars, group_destinations,
                 group_update_tasks, handlers>>

\* asyncio.sleep returns: the loop ends when the destination is gone, skips
\* the update when no driver is assigned, and else submits the extraction.
LoopWake(t) ==
  /\ t \in DOMAIN tasks
  /\ tasks[t].pc = "sleep" /\ ~tasks[t].cancel
  /\ now >= tasks[t].wake_at
  /\ \E task \in {tasks[t]} :
     tasks' =
       [tasks EXCEPT ![t] =
          IF task.chat_id \notin DOMAIN group_destinations THEN Finished(task)
          ELSE IF task.chat_id \notin DOMAIN chat_to_driver THEN Sleeping(task, now)
          ELSE [task EXCEPT !.pc = "fetch_waiting",
                            !.destination = group_destinations[task.chat_id],
                            !.eld_url = get_eld_url_for_group(chat_to_driver, task.chat_id)]]
  /\ last' = [op |-> "loop_wake", task |-> t, chat_id |-> tasks[t].chat_id]
  /\ UNCHANGED <<now, config_vars, data_vars, telemetry_vars, group_destinations,
                 group_update_tasks, handlers>>

\* Mutant: the worker does not wait for a permit.
CanEnter_Unbounded(permits) == TRUE

\* 'with self.selenium_semaphore' is entered only when a permit is free;
\* else the worker blocks.
CanEnter(permits) == permits > 0

\* extract_driver_data_ultra_fast: the worker enters the semaphore.
LoopFetchAcquire(t) ==
  /\ t \in DOMAIN tasks
  /\ tasks[t].pc = "fetch_waiting"
  /\ CanEnter(selenium_semaphore)
  /\ selenium_semaphore' = selenium_semaphore - 1
  /\ tasks' = [tasks EXCEPT ![t].pc = "fetch_running"]
  /\ last' = [op |-> "fetch_acquire", task |-> t]
  /\ UNCHANGED <<now, config_vars, data_vars, cache, abandoned_jobs, executor, group_destinations,
                 group_update_tasks, handlers>>

\* Mutant: the permit is not given back when the extraction returns.
ExitSemaphore_Kept(permits) == permits

\* The end of 'with self.selenium_semaphore': the permit is given back before
\* extract_driver_data_ultra_fast returns to its caller.
ExitSemaphore(permits) == permits + 1

\* extract_driver_data_ultra_fast: the worker returns driver_data.
LoopFetchRelease(t, driver_data) ==
  /\ t \in DOMAIN tasks
  /\ tasks[t].pc = "fetch_running"
  /\ selenium_semaphore' = ExitSemaphore(selenium_semaphore)
  /\ tasks' = [tasks EXCEPT ![t].pc = "fetched", ![t].driver_data = driver_data]
  /\ last' = [op |-> "fetch_release", task |-> t]
  /\ UNCHANGED <<now, config_vars, data_vars, cache, abandoned_jobs, executor, group_destinations,
                 group_update_tasks, handlers>>

\* A worker whose coroutine was cancelled enters the semaphore.
AbandonedAcquire ==
  /\ abandoned_jobs.waiting > 0
  /\ CanEnter(selenium_semaphore)
  /\ selenium_semaphore' = selenium_semaphore - 1
  /\ abandoned_jobs' = [waiting |-> abandoned_jobs.waiting - 1,
                        running |-> abandoned_jobs.running + 1]
  /\ last' = [op |-> "abandoned_acquire"]
  /\ UNCHANGED <<now, config_vars, data_vars, cache, executor, sched_vars>>

\* A worker whose coroutine was cancelled returns; its result is dropped.
AbandonedRelease ==
  /\ abandoned_jobs.running > 0
  /\ selenium_semaphore' = ExitSemaphore(selenium_semaphore)
  /\ abandoned_jobs' = [abandoned_jobs EXCEPT !.running = @ - 1]
  /\ last' = [op |-> "abandoned_release"]
  /\ UNCHANGED <<now, config_vars, data_vars, cache, executor, sched_vars>>

\* The jobs that hold a worker of the executor, blocked at the semaphore or
\* extracting; the job of a loop or of a command counts from its submission.
BusyWorkers ==
  executor.waiting + executor.running + abandoned_jobs.waiting + abandoned_jobs.running
  + Cardinality({t \in DOMAIN tasks : tasks[t].pc \in {"fetch_waiting", "fetch_running"}})
  + Cardinality({h \in DOMAIN handlers :
                   handlers[h].pc \in {"fetch_waiting", "fetch_running"}})

\* run_in_executor(self.executor, self.extract_driver_data_ultra_fast, eld_url)
\* by a caller that is not followed further: the job is queued.
Submit ==
  /\ executor.queued + executor.waiting + executor.running < MaxJobs
  /\ executor' = [executor EXCEPT !.queued = @ + 1]
  /\ last' = [op |-> "submit"]
  /\ UNCHANGED <<now, config_vars, data_vars, cache, selenium_semaphore, abandoned_jobs,
                 sched_vars>>

\* A free worker of the pool takes a queued job and reaches the semaphore.
WorkerStart ==
  /\ executor.queued > 0
  /\ BusyWorkers < max_workers
  /\ executor' = [executor EXCEPT !.queued = @ - 1, !.waiting = @ + 1]
  /\ last' = [op |-> "worker_start"]
  /\ UNCHANGED <<now, config_vars, data_vars, cache, selenium_semaphore, abandoned_jobs,
                 sched_vars>>

\* extract_driver_data_ultra_fast: the worker of a queued job enters the semaphore.
WorkerAcquire ==
  /\ executor.waiting > 0
  /\ CanEnter(selenium_semaphore)
  /\ selenium_semaphore' = selenium_semaphore - 1
  /\ executor' = [executor EXCEPT !.waiting = @ - 1, !.running = @ + 1]
  /\ last' = [op |-> "worker_acquire"]
  /\ UNCHANGED <<now, config_vars, data_vars, cache, abandoned_jobs, sched_vars>>

\* extract_driver_data_ultra_fast: the worker of a queued job returns.
WorkerRelease ==
  /\ executor.running > 0
  /\ selenium_semaphore' = ExitSemaphore(selenium_semaphore)
  /\ executor' = [executor EXCEPT !.running = @ - 1]
  /\ last' = [op |-> "worker_release"]
  /\ UNCHANGED <<now, config_vars, data_vars, cache, abandoned_jobs, sched_vars>>

\* The provider answers of a step are those for the addresses it asks about.
EnvMatches(env, origin_raw, destination_raw) ==
  /\ env.coord_o = PlaceOf(sanitize_address(origin_raw))
  /\ env.coord_d = PlaceOf(sanitize_address(destination_raw))

\* Mutant: the update works on caches read before other updates and
\* commands wrote theirs (here: the caches as they were at the start), and
\* stores what it made of them.
UpdateDistance_StaleCaches(task, env) ==
  calculate_distance_and_time(
    [distance_cache |-> EmptyDict, geocoding_cache |-> EmptyDict,
     available |-> gmaps_distance_matrix_available, has_gmaps |-> gmaps],
    task.driver_data.location, task.destination, task.chat_id, env, now)

\* process_group_update from the distance calculation to its send_message
\* or its return: what it leaves in the resolver state and in the task.
UpdateDistance(task, env) ==
  calculate_distance_and_time(
    [distance_cache |-> distance_cache, geocoding_cache |-> geocoding_cache,
     available |-> gmaps_distance_matrix_available, has_gmaps |-> gmaps],
    task.driver_data.location, task.destination, task.chat_id, env, now)

\* Mutant: the update is sent whatever the distance calculation returned.
AfterDistance_AlwaysSend(task, ok, t) == [task EXCEPT !.pc = "send"]

\* process_group_update after calculate_distance_and_time: None makes it
\* return, a result makes it send the update.
AfterDistance(task, ok, t) ==
  IF ok THEN [task EXCEPT !.pc = "send"] ELSE Sleeping(task, t)

\* process_group_update after the extraction: an offline driver is skipped;
\* else the stop is tracked and checked, and either the alert is sent or the
\* distance is calculated and the update is sent.
LoopAfterFetch(t, env) ==
  /\ t \in DOMAIN tasks
  /\ tasks[t].pc = "fetched" /\ ~tasks[t].cancel
  /\ \E task \in {tasks[t]} :
     IF IsOffline(task.driver_data.location)
     THEN /\ tasks' = [tasks EXCEPT ![t] = Sleeping(@, now)]
          /\ last' = [op |-> "tick", task |-> t, chat_id |-> task.chat_id,
                      alert |-> FALSE, sent |-> FALSE, offline |-> TRUE]
          /\ UNCHANGED data_vars
     ELSE \E chk \in {check_extended_stop(
                        track_driver_stop_time(driver_stop_times, task.eld_url,
                                               task.driver_data, now),
                        task.eld_url, now)} :
          /\ driver_stop_times' = chk.stop_times
          /\ IF chk.triggered
             THEN /\ tasks' = [tasks EXCEPT ![t].pc = "alert"]
                  /\ last' = [op |-> "tick", task |-> t, chat_id |-> task.chat_id,
                              alert |-> TRUE, sent |-> FALSE, offline |-> FALSE]
                  /\ UNCHANGED <<geocoding_cache, distance_cache,
                                 gmaps_distance_matrix_available>>
             ELSE \E r \in {UpdateDistance(task, env)} :
                  /\ EnvMatches(env, task.driver_data.location, task.destination)
                  /\ distance_cache' = r.distance_cache
                  /\ geocoding_cache' = r.geocoding_cache
                  /\ gmaps_distance_matrix_available' = r.available
                  /\ tasks' = [tasks EXCEPT ![t] = AfterDistance(task, r.result.ok, now)]
                  /\ last' = [op |-> "tick", task |-> t, chat_id |-> task.chat_id,
                              alert |-> FALSE, sent |-> r.result.ok, offline |-> FALSE,
                              cached_age |->
                                CachedAge(distance_cache, task.chat_id,
                                          sanitize_address(task.destination), now)]
          /\ UNCHANGED provider_resolved
  /\ UNCHANGED <<now, config_vars, telemetry_vars, group_destinations, group_update_tasks,
                 handlers>>

\* send_message of the alert returns (delivered) or raises: the exception is
\* logged by process_group_update, which returns.
LoopAfterAlert(t, delivered, env) ==
  /\ t \in DOMAIN tasks
  /\ tasks[t].pc = "alert" /\ ~tasks[t].cancel
  /\ \E task \in {tasks[t]} :
     IF ~delivered
     THEN /\ tasks' = [tasks EXCEPT ![t] = AfterFailure(task, now)]
          /\ last' = [op |-> "tick_resume", task |-> t, chat_id |-> task.chat_id,
                      delivered |-> FALSE, sent |-> FALSE]
          /\ UNCHANGED data_vars
     ELSE \E r \in {UpdateDistance(task, env)} :
          /\ EnvMatches(env, task.driver_data.location, task.destination)
          /\ distance_cache' = r.distance_cache
          /\ geocoding_cache' = r.geocoding_cache
          /\ gmaps_distance_matrix_available' = r.available
          /\ tasks' = [tasks EXCEPT ![t] = AfterDistance(task, r.result.ok, now)]
          /\ last' = [op |-> "tick_resume", task |-> t, chat_id |-> task.chat_id,
                      delivered |-> TRUE, sent |-> r.result.ok,
                      cached_age |-> CachedAge(distance_cache, task.chat_id,
                                               sanitize_address(task.destination), now)]
          /\ UNCHANGED <<driver_stop_times, provider_resolved>>
  /\ UNCHANGED <<now, config_vars, telemetry_vars, group_destinations, group_update_tasks,
                 handlers>>

\* send_message of the update returns or raises; the loop sleeps again.
LoopAfterSend(t, delivered) ==
  /\ t \in DOMAIN tasks
  /\ tasks[t].pc = "send" /\ ~tasks[t].cancel
  /\ tasks' = [tasks EXCEPT ![t] = IF delivered THEN Sleeping(tasks[t], now)
                                   ELSE AfterFailure(tasks[t], now)]
  /\ last' = [op |-> "tick_done", task |-> t, chat_id |-> tasks[t].chat_id,
              delivered |-> delivered]
  /\ UNCHANGED <<now, config_vars, data_vars, telemetry_vars, group_destinations,
                 group_update_tasks, handlers>>

\* ------------------------------------------------------------ commands
\* /setdestination: the destination is stored and the loop is (re)started.
set_destination_command(h, chat_id, destination) ==
  /\ CanBegin(h)
  /\ group_destinations' = DictSet(group_destinations, chat_id, destination)
  /\ \E s \in {start_group_auto_update(tasks, group_update_tasks, chat_id)} :
     /\ Len(s.tasks) <= MaxTasks
     /\ tasks' = s.tasks
     /\ group_update_tasks' = s.table
     /\ handlers' = [handlers EXCEPT ![h] = AfterCall(s, "set_destination", chat_id)]
     /\ last' = [op |-> "set_destination", chat_id |-> chat_id, suspended |-> s.suspended]
  /\ UNCHANGED <<now, config_vars, data_vars, telemetry_vars>>

\* /stop: the destination is removed and the loop is stopped.
clear_destination_command(h, chat_id) ==
  /\ CanBegin(h)
  /\ IF chat_id \in DOMAIN group_destinations
     THEN /\ group_destinations' = DictDel(group_destinations, chat_id)
          /\ \E s \in {stop_group_auto_update(tasks, group_update_tasks, chat_id)} :
             /\ tasks' = s.tasks
             /\ group_update_tasks' = s.table
             /\ handlers' = [handlers EXCEPT ![h] = AfterCall(s, "clear_destination", chat_id)]
             /\ last' = [op |-> "clear_destination", chat_id |-> chat_id,
                         suspended |-> s.suspended]
     ELSE /\ last' = [op |-> "clear_destination", chat_id |-> chat_id,
                      suspended |-> FALSE]
          /\ UNCHANGED sched_vars
  /\ UNCHANGED <<now, config_vars, data_vars, telemetry_vars>>

\* The awaited task is done: stop_group_auto_update removes the entry and
\* the command goes on.  A KeyError ends the command: the entry stays as
\* it is and no loop is created.  A /distance or a text message then sends
\* its answer, which may fail (delivered is FALSE).
AwaitTaskDone(h) ==
  /\ handlers[h].pc = "await_task"
  /\ tasks[handlers[h].task].pc = "done"
  /\ \E hd \in {handlers[h]} :
     \E d \in {stop_group_auto_update_resume(group_update_tasks, hd.chat_id)} :
     \E s \in {IF d.raised \/ hd.cmd \in {"clear_destination", "stop"}
               THEN [suspended |-> FALSE, tasks |-> tasks, table |-> d.table, task |-> 0]
               ELSE start_group_auto_update_resume(tasks, d.table, hd.chat_id)} :
     \E delivered \in (IF hd.cmd \in {"distance", "text"} /\ ~d.raised
                       THEN BOOLEAN ELSE {FALSE}) :
     /\ Len(s.tasks) <= MaxTasks
     /\ tasks' = s.tasks
     /\ group_update_tasks' = s.table
     /\ handlers' = [handlers EXCEPT ![h] = IdleHandler]
     /\ last' = [op |-> "stopped", cmd |-> hd.cmd, chat_id |-> hd.chat_id,
                 key_error |-> d.raised, delivered |-> delivered]
  /\ UNCHANGED <<now, config_vars, data_vars, telemetry_vars, group_destinations>>

\* A call of start_group_auto_update(chat_id) on its own.
StartCall(h, chat_id) ==
  /\ CanBegin(h)
  /\ \E s \in {start_group_auto_update(tasks, group_update_tasks, chat_id)} :
     /\ Len(s.tasks) <= MaxTasks
     /\ tasks' = s.tasks
     /\ group_update_tasks' = s.table
     /\ handlers' = [handlers EXCEPT ![h] = AfterCall(s, "start", chat_id)]
     /\ last' = [op |-> "start_call", chat_id |-> chat_id, suspended |-> s.suspended]
  /\ UNCHANGED <<now, config_vars, data_vars, telemetry_vars, group_destinations>>

\* A call of stop_group_auto_update(chat_id) on its own; found tells whether
\* the table had an entry.
StopCall(h, chat_id) ==
  /\ CanBegin(h)
  /\ \E s \in {stop_group_auto_update(tasks, group_update_tasks, chat_id)} :
     /\ tasks' = s.tasks
     /\ group_update_tasks' = s.table
     /\ handlers' = [handlers EXCEPT ![h] = AfterCall(s, "stop", chat_id)]
     /\ last' = [op |-> "stop_call", chat_id |-> chat_id,
                 found |-> chat_id \in DOMAIN group_update_tasks,
                 suspended |-> s.suspended]
  /\ UNCHANGED <<now, config_vars, data_vars, telemetry_vars, group_destinations>>

\* distance_command and handle_text_message from driver_data to the end or
\* to the suspension in start_group_auto_update.  The last call,
\* status_message.edit_text(response), may raise (delivered is FALSE); the
\* handler then replaces the text by its error message.
DistanceReply(h, cmd, chat_id, destination, eld_url, driver_data, env) ==
  IF IsOffline(driver_data.location)
  THEN /\ handlers' = [handlers EXCEPT ![h] = IdleHandler]
       /\ last' = [op |-> cmd, chat_id |-> chat_id, answered |-> FALSE,
                   suspended |-> FALSE, delivered |-> FALSE]
       /\ UNCHANGED <<data_vars, table_vars>>
  ELSE \E r \in {calculate_distance_and_time(
                   [distance_cache |-> distance_cache,
                    geocoding_cache |-> geocoding_cache,
                    available |-> gmaps_distance_matrix_available,
                    has_gmaps |-> gmaps],
                   driver_data.location, destination, chat_id, env, now)} :
       /\ EnvMatches(env, driver_data.location, destination)
       /\ driver_stop_times' =
            track_driver_stop_time(driver_stop_times, eld_url, driver_data, now)
       /\ distance_cache' = r.distance_cache
       /\ geocoding_cache' = r.geocoding_cache
       /\ gmaps_distance_matrix_available' = r.available
       /\ UNCHANGED provider_resolved
       /\ IF ~r.result.ok
          THEN /\ handlers' = [handlers EXCEPT ![h] = IdleHandler]
               /\ last' = [op |-> cmd, chat_id |-> chat_id, answered |-> FALSE,
                           suspended |-> FALSE, delivered |-> FALSE]
               /\ UNCHANGED table_vars
          ELSE \E s \in {start_group_auto_update(tasks, group_update_tasks, chat_id)} :
               \E delivered \in (IF s.suspended THEN {FALSE} ELSE BOOLEAN) :
               /\ Len(s.tasks) <= MaxTasks
               /\ group_destinations' = DictSet(group_destinations, chat_id, destination)
               /\ tasks' = s.tasks
               /\ group_update_tasks' = s.table
               /\ handlers' = [handlers EXCEPT ![h] = AfterCall(s, cmd, chat_id)]
               /\ last' = [op |-> cmd, chat_id |-> chat_id, answered |-> TRUE,
                           suspended |-> s.suspended, delivered |-> delivered]

\* /location once driver_data is known: the stop is tracked and the reply
\* is sent.
LocationReply(h, chat_id, eld_url, driver_data) ==
  /\ driver_stop_times' =
       track_driver_stop_time(driver_stop_times, eld_url, driver_data, now)
  /\ handlers' = [handlers EXCEPT ![h] = IdleHandler]
  /\ last' = [op |-> "location", chat_id |-> chat_id, answered |-> TRUE,
              suspended |-> FALSE, driver_data |-> driver_data]
  /\ UNCHANGED <<gmaps_distance_matrix_available, geocoding_cache, distance_cache,
                 provider_resolved, table_vars>>

\* /location: without a driver the command only replies; a fresh entry of
\* the telemetry cache is used as it is; else the extraction is submitted.
location_command(h, chat_id) ==
  /\ CanBegin(h)
  /\ \E eld_url \in {get_eld_url_for_group(chat_to_driver, chat_id)} :
     IF eld_url = ""
     THEN /\ last' = [op |-> "location", chat_id |-> chat_id, answered |-> FALSE,
                      suspended |-> FALSE]
          /\ UNCHANGED <<data_vars, sched_vars, cache>>
     ELSE \E g \in {get_cached_data(cache, CacheKey(chat_id, eld_url), now)} :
          /\ cache' = g.cache
          /\ IF g.data # NoData
             THEN LocationReply(h, chat_id, eld_url, g.data)
             ELSE /\ handlers' = [handlers EXCEPT ![h] =
                                    [IdleHandler EXCEPT !.pc = "fetch_waiting",
                                                        !.cmd = "location",
                                                        !.chat_id = chat_id,
                                                        !.eld_url = eld_url]]
                  /\ last' = [op |-> "location_fetch", chat_id |-> chat_id]
                  /\ UNCHANGED <<data_vars, table_vars>>
  /\ UNCHANGED <<now, config_vars, selenium_semaphore, abandoned_jobs, executor>>

\* /distance: without a driver the command only replies; a fresh entry of
\* the telemetry cache is used as it is; else the extraction is submitted.
distance_command(h, chat_id, destination, env) ==
  /\ CanBegin(h)
  /\ \E eld_url \in {get_eld_url_for_group(chat_to_driver, chat_id)} :
     IF eld_url = ""
     THEN /\ last' = [op |-> "distance", chat_id |-> chat_id, answered |-> FALSE,
                      suspended |-> FALSE, delivered |-> FALSE]
          /\ UNCHANGED <<data_vars, sched_vars, cache>>
     ELSE \E g \in {get_cached_data(cache, CacheKey(chat_id, eld_url), now)} :
          /\ cache' = g.cache
          /\ IF g.data # NoData
             THEN DistanceReply(h, "distance", chat_id, destination, eld_url, g.data, env)
             ELSE /\ handlers' = [handlers EXCEPT ![h] =
                                    [IdleHandler EXCEPT !.pc = "fetch_waiting",
                                                        !.cmd = "distance",
                                                        !.chat_id = chat_id,
                                                        !.destination = destination,
                                                        !.eld_url = eld_url]]
                  /\ last' = [op |-> "distance_fetch", chat_id |-> chat_id]
                  /\ UNCHANGED <<data_vars, table_vars>>
  /\ UNCHANGED <<now, config_vars, selenium_semaphore, abandoned_jobs, executor>>

\* The filter of handle_text_message:
\* re.search(r'\d+.*[a-zA-Z]|[a-zA-Z].*\d+', text) and len(text) > 10.
LooksLikeAddress(text) ==
  CASE text = "12 Main St, Troy, NY." -> TRUE
    [] text = "12 Main St, Troy, NY" -> TRUE
    [] OTHER -> FALSE

\* A text message: ignored unless it looks like an address; without a driver
\* the handler only replies; else the extraction is submitted.
handle_text_message(h, chat_id, text) ==
  /\ CanBegin(h)
  /\ \E eld_url \in {get_eld_url_for_group(chat_to_driver, chat_id)} :
     IF ~LooksLikeAddress(text) \/ eld_url = ""
     THEN /\ last' = [op |-> "text", chat_id |-> chat_id, answered |-> FALSE,
                      suspended |-> FALSE, delivered |-> FALSE]
          /\ UNCHANGED handlers
     ELSE /\ handlers' = [handlers EXCEPT ![h] =
                            [IdleHandler EXCEPT !.pc = "fetch_waiting",
                                                !.cmd = "text",
                                                !.chat_id = chat_id,
                                                !.destination = text,
                                                !.eld_url = eld_url]]
          /\ last' = [op |-> "text_fetch", chat_id |-> chat_id]
  /\ UNCHANGED <<now, config_vars, data_vars, telemetry_vars, table_vars>>

\* extract_driver_data_ultra_fast for a command: the worker enters the semaphore.
HandlerFetchAcquire(h) ==
  /\ handlers[h].pc = "fetch_waiting"
  /\ CanEnter(selenium_semaphore)
  /\ selenium_semaphore' = selenium_semaphore - 1
  /\ handlers' = [handlers EXCEPT ![h].pc = "fetch_running"]
  /\ last' = [op |-> "fetch_acquire", handler |-> h]
  /\ UNCHANGED <<now, config_vars, data_vars, cache, abandoned_jobs, executor, table_vars>>

\* extract_driver_data_ultra_fast for a command: the worker returns driver_data.
HandlerFetchRelease(h, driver_data) ==
  /\ handlers[h].pc = "fetch_running"
  /\ selenium_semaphore' = ExitSemaphore(selenium_semaphore)
  /\ handlers' = [handlers EXCEPT ![h].pc = "fetched", ![h].driver_data = driver_data]
  /\ last' = [op |-> "fetch_release", handler |-> h]
  /\ UNCHANGED <<now, config_vars, data_vars, cache, abandoned_jobs, executor, table_vars>>

\* The command resumes with driver_data: /location and /distance store it in
\* the telemetry cache, a text message does not; all go on to the reply.
HandlerAfterFetch(h, env) ==
  /\ handlers[h].pc = "fetched"
  /\ \E hd \in {handlers[h]} :
     /\ cache' = IF hd.cmd \in {"distance", "location"}
                 THEN set_cached_data(cache, CacheKey(hd.chat_id, hd.eld_url),
                                      hd.driver_data, now)
                 ELSE cache
     /\ IF hd.cmd = "location"
        THEN LocationReply(h, hd.chat_id, hd.eld_url, hd.driver_data)
        ELSE DistanceReply(h, hd.cmd, hd.chat_id, hd.destination, hd.eld_url,
                           hd.driver_data, env)
  /\ UNCHANGED <<now, config_vars, selenium_semaphore, abandoned_jobs, executor>>

\* ============================================================== bindings
\* The drivers of drivers_config.json, by name, and the entry of a driver as
\* chat_to_driver holds it.
Drivers == 1..NumDrivers
Driver(n) == [name |-> n, eld_url |-> IF n = 1 THEN "eld/1" ELSE "eld/2"]

\* Mutant: the mapping of the group the driver comes from is kept.
set_driver_for_group_KeepsOld(cfg, ctd, chat_id, driver_name) ==
  IF driver_name \notin DOMAIN cfg
  THEN [found |-> FALSE, drivers_config |-> cfg, chat_to_driver |-> ctd]
  ELSE LET cfg1 == IF chat_id \in DOMAIN ctd /\ ctd[chat_id].name # driver_name
                   THEN [cfg EXCEPT ![ctd[chat_id].name].telegram_group_id = NoChat]
                   ELSE cfg
       IN  [found |-> TRUE,
            drivers_config |-> [cfg1 EXCEPT ![driver_name].telegram_group_id = chat_id],
            chat_to_driver |-> DictSet(ctd, chat_id, Driver(driver_name))]

\* set_driver_for_group(chat_id, driver_name) up to save_drivers_config:
\* whether the driver was found, and the two tables after.
set_driver_for_group(cfg, ctd, chat_id, driver_name) ==
  IF driver_name \notin DOMAIN cfg
  THEN [found |-> FALSE, drivers_config |-> cfg, chat_to_driver |-> ctd]
  ELSE LET old_chat_id == cfg[driver_name].telegram_group_id
           ctd1 == IF old_chat_id # NoChat /\ old_chat_id # chat_id
                      /\ old_chat_id \in DOMAIN ctd
                   THEN DictDel(ctd, old_chat_id)
                   ELSE ctd
           cfg1 == IF chat_id \in DOMAIN ctd1 /\ ctd1[chat_id].name # driver_name
                   THEN [cfg EXCEPT ![ctd1[chat_id].name].telegram_group_id = NoChat]
                   ELSE cfg
       IN  [found |-> TRUE,
            drivers_config |-> [cfg1 EXCEPT ![driver_name].telegram_group_id = chat_id],
            chat_to_driver |-> DictSet(ctd1, chat_id, Driver(driver_name))]

\* One call of set_driver_for_group; saved is what save_drivers_config returns.
SetDriver(chat_id, driver_name, saved) ==
  \E r \in {set_driver_for_group(drivers_config, chat_to_driver, chat_id, driver_name)} :
  /\ drivers_config' = r.drivers_config
  /\ chat_to_driver' = r.chat_to_driver
  /\ last' = [op |-> "set_driver", chat_id |-> chat_id, driver_name |-> driver_name,
              ok |-> r.found /\ saved]
  /\ UNCHANGED <<now, gmaps, concurrent_updates, data_vars, telemetry_vars, sched_vars>>

\* ======================================================== duration text
\* f"{duration_minutes:.0f}" for duration_minutes = duration_seconds / 60:
\* the nearest whole number, a half going to the even one.
FormatMinutes(duration_seconds) ==
  LET q == duration_seconds \div 60
      r == duration_seconds % 60
  IN  IF r < 30 \/ (r = 30 /\ q % 2 = 0) THEN ToString(q) ELSE ToString(q + 1)

\* f"{duration_hours:.1f}" for duration_hours = duration_seconds / 3600: the
\* nearest tenth; on a half, the binary value of duration_hours decides, and
\* tie_up tells which way.
FormatHours(duration_seconds, tie_up) ==
  LET q == duration_seconds \div 360
      r == duration_seconds % 360
      t == IF r < 180 \/ (r = 180 /\ ~tie_up) THEN q ELSE q + 1
  IN  ToString(t \div 10) \o "." \o ToString(t % 10)

\* Mutant: a duration of exactly one hour is still given in minutes.
osrm_duration_text_AboveOneHour(duration_seconds, tie_up) ==
  IF duration_seconds > 3600
  THEN FormatHours(duration_seconds, tie_up) \o " hr"
  ELSE FormatMinutes(duration_seconds) \o " min"

\* duration_text of osrm_distance.
osrm_duration_text(duration_seconds, tie_up) ==
  IF duration_seconds >= 3600
  THEN FormatHours(duration_seconds, tie_up) \o " hr"
  ELSE FormatMinutes(duration_seconds) \o " min"

\* duration_text of calculate_distance_and_time for the distance matrix.
gmaps_duration_text(duration_seconds, tie_up) ==
  IF duration_seconds >= 3600
  THEN FormatHours(duration_seconds, tie_up) \o " hr"
  ELSE FormatMinutes(duration_seconds) \o " min"

\* duration_text of calculate_distance_and_time for the straight line.
haversine_duration_text(duration_seconds, tie_up) ==
  IF duration_seconds >= 3600
  THEN FormatHours(duration_seconds, tie_up) \o " hr (estimated)"
  ELSE FormatMinutes(duration_seconds) \o " min (estimated)"

\* One strategy formats the duration of its result.
DurationText(method, duration_seconds, text) ==
  /\ last' = [op |-> "duration_text", method |-> method,
              duration_seconds |-> duration_seconds, duration_text |-> text]
  /\ UNCHANGED <<now, config_vars, data_vars, telemetry_vars, sched_vars>>

\* ==================================================================== specs
\* The drivers of drivers_config.json: every group but the last has a driver.
DriversConfig ==
  [c \in Chats \ {NumChats} |-> Driver(c)]

\* telegram_group_id of the drivers of drivers_config.json (NoChat is None):
\* driver c is assigned to group c, the others to no group.
InitialDrivers ==
  [n \in Drivers |-> [telegram_group_id |-> IF n \in Chats \ {NumChats} THEN n ELSE NoChat]]

\* The bot after __init__ and the application after build(): concurrent
\* tells whether the application dispatches updates concurrently.
InitWith(concurrent) ==
  /\ now = 0
  /\ gmaps \in BOOLEAN
  /\ gmaps_distance_matrix_available \in {b \in BOOLEAN : b => gmaps}
  /\ concurrent_updates = concurrent
  /\ chat_to_driver = DriversConfig
  /\ drivers_config = InitialDrivers
  /\ geocoding_cache = EmptyDict
  /\ distance_cache = EmptyDict
  /\ driver_stop_times = EmptyDict
  /\ cache = EmptyDict
  /\ selenium_semaphore = selenium_permits
  /\ abandoned_jobs = [waiting |-> 0, running |-> 0]
  /\ executor = [queued |-> 0, waiting |-> 0, running |-> 0]
  /\ group_destinations = EmptyDict
  /\ group_update_tasks = EmptyDict
  /\ tasks = <<>>
  /\ handlers = [h \in HandlerIds |-> IdleHandler]
  /\ provider_resolved = EmptyDict
  /\ last = [op |-> "init"]

\* Application.builder().token(...).build(): updates are processed one at a time.
Init == InitWith(FALSE)

\* /setdriver for every group and every driver name, known or not.
NextBinding ==
  \E c \in Chats, n \in Drivers \cup {0}, saved \in BOOLEAN : SetDriver(c, n, saved)

SpecBinding == Init /\ [][NextBinding]_vars

\* The durations of a result: whole and half minutes up to MaxDurationMinutes.
DurationSeconds == {60 * mins + s : mins \in 0..MaxDurationMinutes, s \in {0, 30}}

NextDuration ==
  \/ \E d \in DurationSeconds, tie_up \in BOOLEAN :
       DurationText("OSRM", d, osrm_duration_text(d, tie_up))
  \/ \E d \in DurationSeconds, tie_up \in BOOLEAN :
       DurationText("Google Maps", d, gmaps_duration_text(d, tie_up))
  \/ \E d \in DurationSeconds, tie_up \in BOOLEAN :
       DurationText("Haversine", d, haversine_duration_text(d, tie_up))

SpecDuration == Init /\ [][NextDuration]_vars

StopDeltas == {extended_stop_threshold \div 3, extended_stop_threshold - 1}

NextStop ==
  \/ \E u \in ELD_URLS, s \in SpeedStrings, l \in Locations : Track(u, s, l)
  \/ \E u \in ELD_URLS : CheckStop(u)
  \/ \E d \in StopDeltas : Advance(d, MaxTimeStop)

SpecStop == Init /\ [][NextStop]_vars

GeoDeltas == {geocoding_cache_duration \div 2}

NextGeo ==
  \/ \E a \in Addresses, c \in Coords :
       \E win \in 0..Len(GeocodeAttempts(a, gmaps)) : Geocode(a, win, c)
  \/ \E d \in GeoDeltas : Advance(d, MaxTimeGeo)

SpecGeo == Init /\ [][NextGeo]_vars

\* The outcomes explored for n requests: failures of one kind or of both in
\* turn, up to a first result or to the end.
AttemptOutcomes(n) ==
  {[i \in 1..n |->
      IF w > 0 /\ i >= w THEN "result"
      ELSE IF kind = "mixed" THEN (IF i % 2 = 1 THEN "error" ELSE "empty")
      ELSE kind] : w \in 0..n, kind \in {"error", "empty", "mixed"}}

NextGeoPolicy ==
  \/ \E a \in Addresses, c \in Coords :
       \E outcomes \in AttemptOutcomes(Len(GeocodeAttempts(a, gmaps))) :
         GeocodeAttempt(a, outcomes, c)
  \/ \E d \in GeoDeltas : Advance(d, MaxTimeGeo)

SpecGeoPolicy == Init /\ [][NextGeoPolicy]_vars

DistDeltas == {distance_cache_duration \div 2}
DistOrigins == {"Albany, NY"}
DistDestinations == {"12 Main St, Troy, NY."}

NextDist ==
  \/ \E o \in DistOrigins, d \in DistDestinations, c \in Chats \cup {NoChat} :
       \E env \in ResolveEnvs({"OK", "ZERO_RESULTS", "REQUEST_DENIED"},
                               {<<0, 0>>, <<1, 1>>}, o, d) :
         Resolve(o, d, c, env)
  \/ \E d \in DistDeltas : Advance(d, MaxTimeDist)

SpecDist == Init /\ [][NextDist]_vars

\* The distance resolver under every outcome of the distance matrix and
\* every outcome of the two geocodings, for one group and for a call
\* without chat_id.
StrategyChats == {CHOOSE c \in Chats : TRUE, NoChat}

NextStrategies ==
  \/ \E o \in DistOrigins, d \in DistDestinations, c \in StrategyChats :
       \E env \in ResolveEnvs(GmOutcomes, {0, 1} \X {0, 1}, o, d) :
         Resolve(o, d, c, env)
  \/ \E d \in DistDeltas : Advance(d, MaxTimeDist)

SpecStrategies == Init /\ [][NextStrategies]_vars

SchedDeltas == {auto_update_interval}
SchedDestinations == {"12 Main St, Troy, NY."}
SchedFetch == {d \in DriverData : d.speed \in {"0.0 mph", "N/A"}}
SchedMeters == CHOOSE m \in Meters : \A x \in Meters : m <= x
SchedEnvs(origin_raw, destination_raw) ==
  {env \in ResolveEnvs({"OK"}, {<<0, 0>>}, origin_raw, destination_raw) :
     env.gm_meters = SchedMeters}
SchedOrigins == {d.location : d \in SchedFetch}

NextSched ==
  \/ \E t \in TaskIds : LoopStart(t)
  \/ \E t \in TaskIds : LoopCancelled(t)
  \/ \E t \in TaskIds : LoopWake(t)
  \/ \E t \in TaskIds : LoopFetchAcquire(t)
  \/ \E t \in TaskIds, d \in SchedFetch : LoopFetchRelease(t, d)
  \/ \E t \in TaskIds, o \in SchedOrigins, d \in SchedDestinations :
       \E env \in SchedEnvs(o, d) : LoopAfterFetch(t, env)
  \/ \E t \in TaskIds, o \in SchedOrigins, d \in SchedDestinations, delivered \in BOOLEAN :
       \E env \in SchedEnvs(o, d) : LoopAfterAlert(t, delivered, env)
  \/ \E t \in TaskIds, delivered \in BOOLEAN : LoopAfterSend(t, delivered)
  \/ AbandonedAcquire
  \/ AbandonedRelease
  \/ \E h \in HandlerIds, c \in Chats, d \in SchedDestinations :
       set_destination_command(h, c, d)
  \/ \E h \in HandlerIds, c \in Chats : clear_destination_command(h, c)
  \/ \E h \in HandlerIds, c \in Chats, o \in SchedOrigins, d \in SchedDestinations :
       \E env \in SchedEnvs(o, d) : distance_command(h, c, d, env)
  \/ \E h \in HandlerIds, c \in Chats, d \in SchedDestinations \cup {"hello"} :
       handle_text_message(h, c, d)
  \/ \E h \in HandlerIds : HandlerFetchAcquire(h)
  \/ \E h \in HandlerIds, d \in SchedFetch : HandlerFetchRelease(h, d)
  \/ \E h \in HandlerIds, o \in SchedOrigins, d \in SchedDestinations :
       \E env \in SchedEnvs(o, d) : HandlerAfterFetch(h, env)
  \/ \E h \in HandlerIds : AwaitTaskDone(h)
  \/ \E d \in SchedDeltas : Advance(d, MaxTimeSched)

\* The program as it is built: updates are processed one at a time.
InitSched == Init /\ gmaps_distance_matrix_available
Spec == InitSched /\ [][NextSched]_vars

\* The same program under an application that dispatches updates
\* concurrently, for the commands that start a loop without asking the
\* telemetry source.
NextConcurrent ==
  \/ \E t \in TaskIds : LoopStart(t)
  \/ \E t \in TaskIds : LoopCancelled(t)
  \/ \E t \in TaskIds : LoopWake(t)
  \/ \E t \in TaskIds : LoopFetchAcquire(t)
  \/ \E t \in TaskIds, d \in SchedFetch : LoopFetchRelease(t, d)
  \/ \E t \in TaskIds, o \in SchedOrigins, d \in SchedDestinations :
       \E env \in SchedEnvs(o, d) : LoopAfterFetch(t, env)
  \/ \E t \in TaskIds, o \in SchedOrigins, d \in SchedDestinations, delivered \in BOOLEAN :
       \E env \in SchedEnvs(o, d) : LoopAfterAlert(t, delivered, env)
  \/ \E t \in TaskIds, delivered \in BOOLEAN : LoopAfterSend(t, delivered)
  \/ AbandonedAcquire
  \/ AbandonedRelease
  \/ \E h \in HandlerIds, c \in Chats, d \in SchedDestinations :
       set_destination_command(h, c, d)
  \/ \E h \in HandlerIds : AwaitTaskDone(h)
  \/ \E d \in SchedDeltas : Advance(d, MaxTimeConcurrent)

InitConcurrent == InitWith(TRUE) /\ gmaps_distance_matrix_available
SpecConcurrent == InitConcurrent /\ [][NextConcurrent]_vars

\* The extraction under load: the loop and the text messages of one group
\* whose driver is offline, next to any number of jobs of other callers.
FetchChat == CHOOSE c \in DOMAIN DriversConfig : TRUE
FetchData == {d \in DriverData : IsOffline(d.location)}
FetchOrigins == {d.location : d \in FetchData}

NextFetch ==
  \/ Submit
  \/ WorkerStart
  \/ WorkerAcquire
  \/ WorkerRelease
  \/ \E t \in TaskIds : LoopStart(t)
  \/ \E t \in TaskIds : LoopCancelled(t)
  \/ \E t \in TaskIds : LoopWake(t)
  \/ \E t \in TaskIds : LoopFetchAcquire(t)
  \/ \E t \in TaskIds, d \in FetchData : LoopFetchRelease(t, d)
  \/ \E t \in TaskIds, o \in FetchOrigins, d \in SchedDestinations :
       \E env \in SchedEnvs(o, d) : LoopAfterFetch(t, env)
  \/ AbandonedAcquire
  \/ AbandonedRelease
  \/ \E h \in HandlerIds, d \in SchedDestinations :
       set_destination_command(h, FetchChat, d)
  \/ \E h \in HandlerIds, d \in SchedDestinations :
       handle_text_message(h, FetchChat, d)
  \/ \E h \in HandlerIds : HandlerFetchAcquire(h)
  \/ \E h \in HandlerIds, d \in FetchData : HandlerFetchRelease(h, d)
  \/ \E h \in HandlerIds, o \in FetchOrigins, d \in SchedDestinations :
       \E env \in SchedEnvs(o, d) : HandlerAfterFetch(h, env)
  \/ \E h \in HandlerIds : AwaitTaskDone(h)
  \/ \E d \in SchedDeltas : Advance(d, MaxTimeFetch)

SpecFetch == InitSched /\ [][NextFetch]_vars

\* The semaphore under the callers that matter for a slot's life: the other
\* callers of the executor, one group's loop, and the command that restarts
\* the loop and so cancels a tick in the middle of its fetch.  Fairness: a
\* fetch ends (extract_driver_data_fast catches every exception and returns),
\* and a worker blocked in `with self.selenium_semaphore` that is offered a
\* free permit again and again takes one.
NextGate ==
  \/ Submit /\ executor'.queued + executor.waiting + executor.running <= MaxGateJobs
  \/ WorkerStart
  \/ WorkerAcquire
  \/ WorkerRelease
  \/ \E t \in TaskIds : LoopStart(t)
  \/ \E t \in TaskIds : LoopCancelled(t)
  \/ \E t \in TaskIds : LoopWake(t)
  \/ \E t \in TaskIds : LoopFetchAcquire(t)
  \/ \E t \in TaskIds, d \in FetchData : LoopFetchRelease(t, d)
  \/ \E t \in TaskIds, o \in FetchOrigins, d \in SchedDestinations :
       \E env \in SchedEnvs(o, d) : LoopAfterFetch(t, env)
  \/ AbandonedAcquire
  \/ AbandonedRelease
  \/ \E h \in HandlerIds, d \in SchedDestinations :
       set_destination_command(h, FetchChat, d) /\ Len(tasks') <= MaxGateTasks
  \/ \E h \in HandlerIds : AwaitTaskDone(h) /\ Len(tasks') <= MaxGateTasks
  \/ \E d \in SchedDeltas : Advance(d, MaxTimeGate)

GateFairness ==
  /\ WF_vars(WorkerRelease)
  /\ WF_vars(AbandonedRelease)
  /\ SF_vars(WorkerAcquire)
  /\ SF_vars(AbandonedAcquire)
  /\ \A t \in 1..MaxGateTasks :
       /\ WF_vars(\E d \in FetchData : LoopFetchRelease(t, d))
       /\ SF_vars(LoopFetchAcquire(t))

SpecGate == InitSched /\ [][NextGate]_vars /\ GateFairness

\* The telemetry cache between the commands and the loop of one group:
\* /location and text messages next to the periodic update.
NextMemo ==
  \/ \E t \in TaskIds : LoopStart(t)
  \/ \E t \in TaskIds : LoopCancelled(t)
  \/ \E t \in TaskIds : LoopWake(t)
  \/ \E t \in TaskIds : LoopFetchAcquire(t)
  \/ \E t \in TaskIds, d \in FetchData : LoopFetchRelease(t, d)
  \/ \E t \in TaskIds, o \in FetchOrigins, d \in SchedDestinations :
       \E env \in SchedEnvs(o, d) : LoopAfterFetch(t, env)
  \/ AbandonedAcquire
  \/ AbandonedRelease
  \/ \E h \in HandlerIds, d \in SchedDestinations :
       set_destination_command(h, FetchChat, d)
  \/ \E h \in HandlerIds : location_command(h, FetchChat)
  \/ \E h \in HandlerIds, d \in SchedDestinations :
       handle_text_message(h, FetchChat, d)
  \/ \E h \in HandlerIds : HandlerFetchAcquire(h)
  \/ \E h \in HandlerIds, d \in FetchData : HandlerFetchRelease(h, d)
  \/ \E h \in HandlerIds, o \in FetchOrigins, d \in SchedDestinations :
       \E env \in SchedEnvs(o, d) : HandlerAfterFetch(h, env)
  \/ \E h \in HandlerIds : AwaitTaskDone(h)
  \/ \E d \in SchedDeltas : Advance(d, MaxTimeSched)

SpecMemo == InitSched /\ [][NextMemo]_vars

\* The periodic update of one group, with every kind of driver_data and
\* with providers that answer or fail.
TickEnvs(origin_raw, destination_raw) ==
  {env \in ResolveEnvs({"OK", "ZERO_RESULTS"}, {<<0, 0>>, <<1, 1>>},
                       origin_raw, destination_raw) :
     env.gm_meters = SchedMeters /\ (env.osrm = <<>> \/ env.osrm[1] = SchedMeters)}
TickOrigins == {d.location : d \in DriverData}
\* The clock moves by half the interval of the loop, or by the interval.
TickDeltas == {auto_update_interval \div 2, auto_update_interval}

NextTick ==
  \/ \E t \in TaskIds : LoopStart(t)
  \/ \E t \in TaskIds : LoopCancelled(t)
  \/ \E t \in TaskIds : LoopWake(t)
  \/ \E t \in TaskIds : LoopFetchAcquire(t)
  \/ \E t \in TaskIds, d \in DriverData : LoopFetchRelease(t, d)
  \/ \E t \in TaskIds, o \in TickOrigins, d \in SchedDestinations :
       \E env \in TickEnvs(o, d) : LoopAfterFetch(t, env)
  \/ \E t \in TaskIds, o \in TickOrigins, d \in SchedDestinations, delivered \in BOOLEAN :
       \E env \in TickEnvs(o, d) : LoopAfterAlert(t, delivered, env)
  \/ \E t \in TaskIds, delivered \in BOOLEAN : LoopAfterSend(t, delivered)
  \/ AbandonedAcquire
  \/ AbandonedRelease
  \/ \E h \in HandlerIds, d \in SchedDestinations :
       set_destination_command(h, FetchChat, d)
  \/ \E h \in HandlerIds : AwaitTaskDone(h)
  \/ \E d \in TickDeltas : Advance(d, MaxTimeTick)

SpecTick == InitSched /\ [][NextTick]_vars

\* The loops of one group under /setdestination and /stop, dispatched
\* concurrently, so that a loop can outlive the destination it was started
\* for; the driver is moving and the distance matrix answers.
LoopDestinations == SchedDestinations \cup {"Hudson, NY"}
LoopData == {d \in DriverData : d.speed = "65.2 mph"}
LoopOrigins == {d.location : d \in LoopData}

NextLoop ==
  \/ \E t \in TaskIds : LoopStart(t)
  \/ \E t \in TaskIds : LoopCancelled(t)
  \/ \E t \in TaskIds : LoopWake(t)
  \/ \E t \in TaskIds : LoopFetchAcquire(t)
  \/ \E t \in TaskIds, d \in LoopData : LoopFetchRelease(t, d)
  \/ \E t \in TaskIds, o \in LoopOrigins, d \in LoopDestinations :
       \E env \in SchedEnvs(o, d) : LoopAfterFetch(t, env)
  \/ \E t \in TaskIds, delivered \in BOOLEAN : LoopAfterSend(t, delivered)
  \/ AbandonedAcquire
  \/ AbandonedRelease
  \/ \E h \in HandlerIds, d \in LoopDestinations :
       set_destination_command(h, FetchChat, d)
  \/ \E h \in HandlerIds : clear_destination_command(h, FetchChat)
  \/ \E h \in HandlerIds : AwaitTaskDone(h)
  \/ \E d \in SchedDeltas : Advance(d, MaxTimeSched)

SpecLoop == InitConcurrent /\ [][NextLoop]_vars

\* The stop alert between the loops and the commands of two groups: group c
\* is given driver c + 1, so that the two groups come to share an ELD URL;
\* the driver is moving, stopped or offline; the clock moves by
\* extended_stop_threshold, so that an update comes exactly that long after
\* an earlier reading.
AlertData == {d \in DriverData : d.speed \in {"65.2 mph", "0.0 mph", "N/A"}}
AlertOrigins == {d.location : d \in AlertData}
AlertDeltas == {extended_stop_threshold}

NextAlert ==
  \/ \E c \in Chats : SetDriver(c, c + 1, TRUE) /\ now = 0
  \/ \E h \in HandlerIds, c \in Chats, d \in SchedDestinations :
       set_destination_command(h, c, d) /\ now = 0 /\ c \notin DOMAIN group_update_tasks
  \/ \E t \in TaskIds : LoopStart(t)
  \/ \E t \in TaskIds : LoopWake(t)
  \/ \E t \in TaskIds : LoopFetchAcquire(t)
  \/ \E t \in TaskIds, d \in SchedFetch : LoopFetchRelease(t, d)
  \/ \E t \in TaskIds, o \in AlertOrigins, d \in SchedDestinations :
       \E env \in SchedEnvs(o, d) : LoopAfterFetch(t, env)
  \/ \E t \in TaskIds, o \in AlertOrigins, d \in SchedDestinations, delivered \in BOOLEAN :
       \E env \in SchedEnvs(o, d) : LoopAfterAlert(t, delivered, env)
  \/ \E t \in TaskIds, delivered \in BOOLEAN : LoopAfterSend(t, delivered)
  \/ \E h \in HandlerIds : location_command(h, FetchChat)
  \/ \E h \in HandlerIds : HandlerFetchAcquire(h)
  \/ \E h \in HandlerIds, d \in AlertData \ FetchData : HandlerFetchRelease(h, d)
  \/ \E h \in HandlerIds, o \in AlertOrigins, d \in SchedDestinations :
       \E env \in SchedEnvs(o, d) : HandlerAfterFetch(h, env)
  \/ \E d \in AlertDeltas : Advance(d, MaxTimeAlert)

SpecAlert == InitSched /\ [][NextAlert]_vars

\* The telemetry cache between the groups: group c is given driver c + 1, so
\* that two groups come to share a source, and /location is sent to both
\* while entries are fresh and after they have expired.
MemoKeyDeltas == {cache_duration - 1, cache_duration}
MemoKeyData == {d \in DriverData : d.speed \in {"65.2 mph", "N/A"}}

NextMemoKey ==
  \/ \E c \in Chats : SetDriver(c, c + 1, TRUE)
  \/ \E h \in HandlerIds, c \in Chats : location_command(h, c)
  \/ \E h \in HandlerIds : HandlerFetchAcquire(h)
  \/ \E h \in HandlerIds, d \in MemoKeyData : HandlerFetchRelease(h, d)
  \/ \E h \in HandlerIds, o \in SchedOrigins, d \in SchedDestinations :
       \E env \in SchedEnvs(o, d) : HandlerAfterFetch(h, env)
  \/ \E d \in MemoKeyDeltas : Advance(d, MaxTimeMemoKey)

SpecMemoKey == InitSched /\ [][NextMemoKey]_vars

\* The caches of the resolver between the loop and the /distance commands of
\* one group: the distance matrix answers or finds nothing, and then the
\* addresses are geocoded and a route or the straight line gives the distance.
SharedEnvs(origin_raw, destination_raw) ==
  ResolveEnvs({"OK", "ZERO_RESULTS"}, {<<1, 1>>}, origin_raw, destination_raw)

NextShared ==
  \/ \E t \in TaskIds : LoopStart(t)
  \/ \E t \in TaskIds : LoopCancelled(t)
  \/ \E t \in TaskIds : LoopWake(t)
  \/ \E t \in TaskIds : LoopFetchAcquire(t)
  \/ \E t \in TaskIds, d \in LoopData : LoopFetchRelease(t, d)
  \/ \E t \in TaskIds, o \in LoopOrigins, d \in LoopDestinations :
       \E env \in SharedEnvs(o, d) : LoopAfterFetch(t, env)
  \/ \E t \in TaskIds, delivered \in BOOLEAN : LoopAfterSend(t, delivered)
  \/ AbandonedAcquire
  \/ AbandonedRelease
  \/ \E h \in HandlerIds, o \in LoopOrigins, d \in LoopDestinations :
       \E env \in SharedEnvs(o, d) : distance_command(h, FetchChat, d, env)
  \/ \E h \in HandlerIds : HandlerFetchAcquire(h)
  \/ \E h \in HandlerIds, d \in LoopData : HandlerFetchRelease(h, d)
  \/ \E h \in HandlerIds, o \in LoopOrigins, d \in LoopDestinations :
       \E env \in SharedEnvs(o, d) : HandlerAfterFetch(h, env)
  \/ \E h \in HandlerIds : AwaitTaskDone(h)
  \/ \E d \in SchedDeltas : Advance(d, MaxTimeSched)

SpecShared == InitSched /\ [][NextShared]_vars

\* start_group_auto_update and stop_group_auto_update called on their own,
\* one call at a time, with the loops they create.
NextCalls ==
  \/ \E h \in HandlerIds, c \in Chats : StartCall(h, c)
  \/ \E h \in HandlerIds, c \in Chats : StopCall(h, c)
  \/ \E h \in HandlerIds : AwaitTaskDone(h)
  \/ \E t \in TaskIds : LoopStart(t)
  \/ \E t \in TaskIds : LoopCancelled(t)
  \/ \E t \in TaskIds : LoopWake(t)
  \/ \E d \in SchedDeltas : Advance(d, MaxTimeSched)

SpecCalls == InitSched /\ [][NextCalls]_vars

\* ================================================================== claims

\* The loops of a group that are alive: created and not yet ended.
AliveLoops(c) == {t \in DOMAIN tasks : tasks[t].chat_id = c /\ tasks[t].pc # "done"}

\* No update is being processed.
NoCommandInProgress == \A h \in HandlerIds : handlers[h].pc = "idle"

\* C1: when updates are processed one at a time, a group has at most one
\* loop alive and that loop is the one in group_update_tasks; once the
\* command is over the recorded loop is running, not cancelled; and a loop is
\* created only when every earlier loop of the group has ended.
C1_OneLoopPerGroup ==
  /\ [](\A c \in Chats :
          /\ Cardinality(AliveLoops(c)) <= 1
          /\ \A t \in AliveLoops(c) :
               c \in DOMAIN group_update_tasks /\ group_update_tasks[c] = t
          /\ (NoCommandInProgress /\ c \in DOMAIN group_update_tasks)
               => /\ tasks[group_update_tasks[c]].pc # "done"
                  /\ ~tasks[group_update_tasks[c]].cancel)
  /\ [][Len(tasks') > Len(tasks)
          => /\ AliveLoops(tasks'[Len(tasks')].chat_id) = {}
             /\ group_update_tasks'[tasks'[Len(tasks')].chat_id] = Len(tasks')]_vars

\* A second start for a group is over: the first loop has ended and the
\* second is recorded and asleep.
C1_Witness ==
  \E c \in Chats :
    /\ NoCommandInProgress
    /\ last.op = "stopped" /\ last.cmd # "clear_destination" /\ last.chat_id = c
    /\ c \in DOMAIN group_update_tasks
    /\ tasks[group_update_tasks[c]].pc = "created"
    /\ \E t \in DOMAIN tasks :
         t < group_update_tasks[c] /\ tasks[t].chat_id = c /\ tasks[t].pc = "done"

LastKey == <<last.chat_id, last.destination>>

\* C3: when a strategy computes a distance for a key whose cached entry is
\* younger than distance_cache_duration and holds a smaller distance, the
\* call returns no result.
C3_RegressionRejected ==
  [][\A c \in Chats :
       (/\ last'.op = "resolve" /\ last'.chat_id = c /\ last'.computed >= 0
        /\ <<c, last'.destination>> \in DOMAIN distance_cache
        /\ now - distance_cache[<<c, last'.destination>>].timestamp < distance_cache_duration
        /\ last'.computed > distance_cache[<<c, last'.destination>>].distance)
       => ~last'.ok]_vars

\* C3 witness: a call computed a distance above the cached one and failed.
C3_Witness ==
  /\ last.op = "resolve" /\ last.chat_id \in Chats /\ ~last.ok
  /\ LastKey \in DOMAIN distance_cache
  /\ last.computed > distance_cache[LastKey].distance
  /\ now - distance_cache[LastKey].timestamp < distance_cache_duration

\* C4: such a rejected computation leaves the whole distance cache as it was.
C4_RejectionKeepsCache ==
  [][\A c \in Chats :
       (/\ last'.op = "resolve" /\ last'.chat_id = c /\ last'.computed >= 0
        /\ <<c, last'.destination>> \in DOMAIN distance_cache
        /\ now - distance_cache[<<c, last'.destination>>].timestamp < distance_cache_duration
        /\ last'.computed > distance_cache[<<c, last'.destination>>].distance)
       => distance_cache' = distance_cache]_vars

\* C4 witness: a rejection some time after the entry was recorded; the entry
\* still carries the earlier timestamp.
C4_Witness ==
  /\ last.op = "resolve" /\ last.chat_id \in Chats /\ ~last.ok
  /\ last.computed > last.cached /\ last.cached >= 0 /\ last.age > 0
  /\ distance_cache[LastKey].timestamp = now - last.age
  /\ distance_cache[LastKey].distance = last.cached

\* C5: when a strategy computes a distance for a key with no entry, or not
\* above the cached distance, or with an entry of age at least
\* distance_cache_duration, the call returns that distance and the entry
\* becomes {distance, now, origin}; the other entries are unchanged.
C5_AcceptedOverwrites ==
  [][\A c \in Chats :
       LET key == <<c, last'.destination>> IN
       (/\ last'.op = "resolve" /\ last'.chat_id = c /\ last'.computed >= 0
        /\ \/ key \notin DOMAIN distance_cache
           \/ last'.computed <= distance_cache[key].distance
           \/ now - distance_cache[key].timestamp >= distance_cache_duration)
       => /\ last'.ok /\ last'.distance = last'.computed
          /\ DOMAIN distance_cache' = DOMAIN distance_cache \cup {key}
          /\ distance_cache'[key] = [distance |-> last'.computed, timestamp |-> now,
                                     driver_location |-> last'.origin]
          /\ \A k \in DOMAIN distance_cache \ {key} :
               distance_cache'[k] = distance_cache[k]]_vars

\* C5 witness: a distance equal to the cached one, computed while the entry
\* was still valid, was returned and the entry re-stamped.
C5_Witness ==
  /\ last.op = "resolve" /\ last.chat_id \in Chats /\ last.ok
  /\ last.cached = last.computed
  /\ last.age > 0 /\ last.age < distance_cache_duration
  /\ distance_cache[LastKey].timestamp = now

\* C6: an entry of age at least distance_cache_duration rejects nothing: a
\* larger computed distance is returned and becomes the cached distance.
C6_ExpiredAccepts ==
  [][\A c \in Chats :
       LET key == <<c, last'.destination>> IN
       (/\ last'.op = "resolve" /\ last'.chat_id = c /\ last'.computed >= 0
        /\ key \in DOMAIN distance_cache
        /\ now - distance_cache[key].timestamp >= distance_cache_duration
        /\ last'.computed > distance_cache[key].distance)
       => /\ last'.ok
          /\ distance_cache'[key].distance = last'.computed]_vars

\* C6 witness: a larger distance accepted over an entry of age exactly
\* distance_cache_duration.
C6_Witness ==
  /\ last.op = "resolve" /\ last.chat_id \in Chats /\ last.ok
  /\ last.age = distance_cache_duration
  /\ last.cached >= 0 /\ last.computed > last.cached
  /\ distance_cache[LastKey].distance = last.computed

\* C7: resolving an address again within geocoding_cache_duration of a
\* resolution that a provider answered returns the same coordinates, makes no
\* provider request, and is served from the cache entry stored under that
\* same address.
C7_GeoIdempotent ==
  [][\A a \in Addresses :
       (/\ last'.op = "geocode" /\ last'.address = a
        /\ a \in DOMAIN provider_resolved
        /\ now - provider_resolved[a].at < geocoding_cache_duration)
       => /\ last'.lat_lon = provider_resolved[a].lat_lon
          /\ last'.ncalls = 0
          /\ a \in DOMAIN geocoding_cache
          /\ geocoding_cache[a].lat_lon = provider_resolved[a].lat_lon
          /\ geocoding_cache' = geocoding_cache]_vars

\* C7 witness: a second resolution, later than the first and within the TTL,
\* answered without any provider request.
C7_Witness ==
  /\ last.op = "geocode" /\ last.ncalls = 0 /\ last.lat_lon # NoneLL
  /\ last.address \in DOMAIN provider_resolved
  /\ provider_resolved[last.address].at < now
  /\ Len(parse_and_clean_address(last.address)) > 1

\* C8: a lookup that finds an entry whose age has reached
\* geocoding_cache_duration does not serve it: the providers are asked again,
\* the old entry is gone, and the address is cached afterwards only if a
\* provider answered, with the time of this call.
C8_GeoExpiry ==
  [][\A a \in Addresses :
       (/\ last'.op = "geocode" /\ last'.address = a
        /\ a \in DOMAIN geocoding_cache
        /\ now - geocoding_cache[a].timestamp >= geocoding_cache_duration)
       => /\ last'.ncalls > 0
          /\ (last'.lat_lon = NoneLL <=> a \notin DOMAIN geocoding_cache')
          /\ (a \in DOMAIN geocoding_cache' =>
                geocoding_cache'[a] = [lat_lon |-> last'.lat_lon, timestamp |-> now])]_vars

\* C8 witness: an entry of age exactly geocoding_cache_duration was looked up,
\* no provider answered, and the entry is evicted.
C8_Witness ==
  /\ last.op = "geocode" /\ last.age = geocoding_cache_duration
  /\ last.lat_lon = NoneLL /\ last.ncalls > 0
  /\ last.address \notin DOMAIN geocoding_cache

\* C9: an observation with speed 0 of a source without episode creates one
\* with stopped_since = now and notified = FALSE; with an episode it changes
\* only the location; an observation with speed > 0 leaves no episode; other
\* sources are untouched.
C9_StopEpisode ==
  [][\A u \in ELD_URLS :
       (last'.op = "track" /\ last'.eld_url = u)
       => /\ (last'.speed = 0 /\ u \notin DOMAIN driver_stop_times) =>
               /\ u \in DOMAIN driver_stop_times'
               /\ driver_stop_times'[u] = [stopped_since |-> now,
                                           location |-> last'.location,
                                           notified |-> FALSE]
          /\ (last'.speed = 0 /\ u \in DOMAIN driver_stop_times) =>
               /\ u \in DOMAIN driver_stop_times'
               /\ driver_stop_times'[u] =
                    [driver_stop_times[u] EXCEPT !.location = last'.location]
          /\ last'.speed > 0 => u \notin DOMAIN driver_stop_times'
          /\ \A v \in ELD_URLS \ {u} :
               /\ v \in DOMAIN driver_stop_times' <=> v \in DOMAIN driver_stop_times
               /\ v \in DOMAIN driver_stop_times =>
                    driver_stop_times'[v] = driver_stop_times[v]]_vars

\* C9 witness: a further zero-speed observation of a source whose episode
\* began earlier; stopped_since is still the earlier time.
C9_Witness ==
  /\ last.op = "track" /\ last.speed = 0
  /\ last.eld_url \in DOMAIN driver_stop_times
  /\ driver_stop_times[last.eld_url].stopped_since < now
  /\ driver_stop_times[last.eld_url].location = last.location

\* C10: check_extended_stop returns triggered exactly when the source has an
\* episode, at least extended_stop_threshold seconds old, not yet notified;
\* that call sets notified and nothing else; any other call changes nothing;
\* and no step resets notified while the episode lasts.
C10_SingleFire ==
  [][/\ \A u \in ELD_URLS :
          (last'.op = "check" /\ last'.eld_url = u)
          => LET due == /\ u \in DOMAIN driver_stop_times
                        /\ now - driver_stop_times[u].stopped_since >= extended_stop_threshold
                        /\ ~driver_stop_times[u].notified
             IN  /\ last'.triggered <=> due
                 /\ due => driver_stop_times' =
                             [driver_stop_times EXCEPT ![u].notified = TRUE]
                 /\ ~due => driver_stop_times' = driver_stop_times
     /\ \A u \in ELD_URLS :
          (/\ u \in DOMAIN driver_stop_times /\ driver_stop_times[u].notified
           /\ u \in DOMAIN driver_stop_times')
          => /\ driver_stop_times'[u].notified
             /\ driver_stop_times'[u].stopped_since = driver_stop_times[u].stopped_since]_vars

\* C10 witness: a call in an episode that is past the threshold and already
\* notified returned triggered = FALSE.
C10_Witness ==
  /\ last.op = "check" /\ ~last.triggered
  /\ last.eld_url \in DOMAIN driver_stop_times
  /\ driver_stop_times[last.eld_url].notified
  /\ now - driver_stop_times[last.eld_url].stopped_since > extended_stop_threshold

\* C16: a REQUEST_DENIED answer of the distance matrix sets
\* gmaps_distance_matrix_available to False, the flag never goes back from
\* False to True, and no call asks the distance matrix while it is False.
C16_StickyBreaker ==
  [][/\ ~gmaps_distance_matrix_available => ~gmaps_distance_matrix_available'
     /\ (last'.op = "resolve" /\ last'.gm = "REQUEST_DENIED")
          => ~gmaps_distance_matrix_available'
     /\ (last'.op = "resolve" /\ ~gmaps_distance_matrix_available)
          => last'.gm = "NOT_CALLED"]_vars

\* C16 witness: the distance matrix has answered REQUEST_DENIED and is disabled.
C16_Witness ==
  /\ last.op = "resolve" /\ last.gm = "REQUEST_DENIED"
  /\ gmaps /\ ~gmaps_distance_matrix_available

\* C17: an OVER_QUERY_LIMIT answer leaves the distance matrix enabled and
\* the call goes on to the fallback path (geocoding, then the routing
\* service when both places are found); a call made while the distance
\* matrix is enabled asks it.
C17_QuotaIsSoftMiss ==
  [][/\ (last'.op = "resolve" /\ last'.gm = "OVER_QUERY_LIMIT")
          => /\ gmaps_distance_matrix_available'
             /\ last'.geo # "skipped"
             /\ last'.geo = "found" => last'.osrm # "NOT_CALLED"
     /\ (last'.op = "resolve" /\ gmaps /\ gmaps_distance_matrix_available)
          => last'.gm # "NOT_CALLED"]_vars

\* C17 witness: after an OVER_QUERY_LIMIT answer the routing service gave
\* the result and the distance matrix is still enabled.
C17_Witness ==
  /\ last.op = "resolve" /\ last.gm = "OVER_QUERY_LIMIT"
  /\ last.ok /\ last.strategy = "osrm" /\ gmaps_distance_matrix_available

\* C18: the distance matrix is asked first whenever it is enabled; the
\* routing service is asked only when the distance matrix was not asked or
\* gave no distance; the great-circle estimate is computed only when the
\* routing service was asked and had no route; after a distance of the
\* distance matrix nothing else is asked, and after a route of the routing
\* service no estimate is computed.
C18_StrategyOrder ==
  [][last'.op = "resolve" =>
       /\ (gmaps /\ gmaps_distance_matrix_available) => last'.gm # "NOT_CALLED"
       /\ last'.osrm # "NOT_CALLED" => last'.gm # "OK"
       /\ last'.strategy = "haversine" => last'.osrm = "NO_ROUTE"
       /\ last'.gm = "OK" => /\ last'.strategy = "matrix"
                             /\ last'.geo = "skipped"
                             /\ last'.osrm = "NOT_CALLED"
       /\ last'.osrm = "OK" => last'.strategy = "osrm"]_vars

\* C18 witness: the distance matrix found nothing, the routing service had
\* no route, and the great-circle estimate is the result.
C18_Witness ==
  /\ last.op = "resolve" /\ last.gm = "ZERO_RESULTS" /\ last.osrm = "NO_ROUTE"
  /\ last.strategy = "haversine" /\ last.ok

\* C19: when the geocoding of the origin or of the destination fails, the
\* call returns no result, the routing service is not asked, no distance is
\* computed and the distance cache stays as it was.
C19_GeocodingFailureFails ==
  [][(last'.op = "resolve" /\ last'.geo = "failed")
       => /\ ~last'.ok
          /\ last'.osrm = "NOT_CALLED"
          /\ last'.strategy = "none" /\ last'.computed = -1
          /\ distance_cache' = distance_cache]_vars

\* C19 witness: the origin was found and the destination was not.
C19_Witness ==
  /\ last.op = "resolve" /\ last.geo = "failed" /\ ~last.ok
  /\ last.origin \in DOMAIN geocoding_cache
  /\ last.destination \notin DOMAIN geocoding_cache

\* C20: a distance computed by any strategy for a call with a chat_id is
\* returned exactly when is_distance_valid accepts it, and the distance cache
\* becomes what is_distance_valid leaves; a rejected distance of the
\* distance matrix or of the routing service is not followed by another
\* strategy; a call without chat_id returns whatever was computed and
\* leaves the distance cache as it was.
C20_EveryResultValidated ==
  [][last'.op = "resolve" =>
       IF last'.chat_id = NoChat
       THEN /\ distance_cache' = distance_cache
            /\ last'.computed >= 0 => last'.ok
       ELSE last'.computed >= 0 =>
            LET v == is_distance_valid(distance_cache, last'.chat_id, last'.destination,
                                       last'.computed, last'.origin, now) IN
            /\ last'.ok <=> v.valid
            /\ distance_cache' = v.cache
            /\ (~last'.ok /\ last'.gm = "OK")
                 => last'.geo = "skipped" /\ last'.osrm = "NOT_CALLED"
            /\ (~last'.ok /\ last'.osrm = "OK") => last'.strategy = "osrm"]_vars

\* C20 witness: a route of the routing service was rejected by the check.
C20_Witness ==
  /\ last.op = "resolve" /\ last.chat_id # NoChat /\ ~last.ok
  /\ last.strategy = "osrm" /\ last.osrm = "OK"
  /\ last.computed > last.cached /\ last.cached >= 0

\* C15: a call of stop_group_auto_update for a group without an entry in
\* group_update_tasks returns at once, raises nothing and leaves the table,
\* the tasks and the destinations as they were; and when a call of
\* stop_group_auto_update is over the group has no entry, so that a second
\* call in a row is such a call.
C15_StopIdempotent ==
  [][/\ (last'.op = "stop_call" /\ ~last'.found)
          => /\ ~last'.suspended
             /\ UNCHANGED <<group_update_tasks, group_destinations, tasks, handlers>>
     /\ (last'.op = "stop_call" /\ ~last'.suspended)
          => last'.chat_id \notin DOMAIN group_update_tasks'
     /\ (last'.op = "stopped" /\ last'.cmd = "stop")
          => /\ ~last'.key_error
             /\ last'.chat_id \notin DOMAIN group_update_tasks'
             /\ group_destinations' = group_destinations]_vars

\* C15 witness: a second stop in a row, after the first one has cancelled
\* the loop of the group and removed its entry (no loop has slept through
\* its interval yet, so the loop ended by cancellation).
C15_Witness ==
  /\ last.op = "stop_call" /\ ~last.found
  /\ \E t \in DOMAIN tasks : tasks[t].chat_id = last.chat_id /\ tasks[t].pc = "done"
  /\ now < auto_update_interval

\* The steps of the coroutine of a loop; last.task is the loop.
LoopSteps == {"loop_start", "loop_wake", "tick", "tick_resume", "tick_done",
              "loop_cancelled"}

\* The latest step sent a message of a loop: the alert or the update.
Emitted(l) ==
  \/ l.op = "tick" /\ (l.alert \/ l.sent)
  \/ l.op = "tick_resume" /\ l.sent

\* C14: a stop that finds a live loop requests its cancellation, whether the
\* loop sleeps or is in the middle of an update; the first step the loop
\* makes after the request is its end, without a message; stop returns only
\* when the loop has ended; and a loop that has ended never makes a step again.
C14_CancellationSafe ==
  [][/\ (last'.op \in {"set_destination", "clear_destination", "distance", "text"}
           /\ last'.suspended)
          => \E h \in HandlerIds :
               /\ handlers'[h].pc = "await_task"
               /\ tasks[handlers'[h].task].pc # "done"
               /\ tasks'[handlers'[h].task].cancel
     /\ last'.op \in LoopSteps
          => /\ tasks[last'.task].pc # "done"
             /\ tasks[last'.task].cancel
                  => /\ last'.op = "loop_cancelled"
                     /\ tasks'[last'.task].pc = "done"
                     /\ ~Emitted(last')
     /\ last'.op = "stopped"
          => \E h \in HandlerIds :
               /\ handlers[h].pc = "await_task"
               /\ handlers'[h].pc = "idle"
               /\ tasks[handlers[h].task].pc = "done"
     /\ \A t \in DOMAIN tasks : tasks[t].pc = "done" => tasks'[t] = tasks[t]]_vars

\* C14 witness: /stop has returned after it cancelled a loop in the middle
\* of an update, while the worker of the extraction was running.
C14_Witness ==
  /\ last.op = "stopped" /\ last.cmd = "clear_destination"
  /\ abandoned_jobs.running > 0

\* The latest step is an update that failed: the distance could not be
\* calculated, or a send_message raised.
TickFailed(l) ==
  \/ l.op = "tick" /\ ~l.offline /\ ~l.alert /\ ~l.sent
  \/ l.op = "tick_resume" /\ ~l.sent
  \/ l.op = "tick_done" /\ ~l.delivered

\* C13: an update that fails leaves the loop alive, recorded as before and
\* asleep for a whole interval; nothing of the failed update is kept for a
\* second attempt (a failed alert stays marked as sent); and a loop that wakes
\* with its destination set and a driver assigned starts an update.
C13_TickFailureKeepsSchedule ==
  [][/\ TickFailed(last')
          => /\ tasks'[last'.task] = Sleeping(tasks[last'.task], now)
             /\ tasks'[last'.task].pc = "sleep"
             /\ tasks'[last'.task].wake_at = now + auto_update_interval
             /\ tasks'[last'.task].driver_data = NoData
             /\ group_update_tasks' = group_update_tasks
             /\ group_destinations' = group_destinations
             /\ (last'.op # "tick") => driver_stop_times' = driver_stop_times
     /\ (/\ last'.op = "loop_wake"
         /\ last'.chat_id \in DOMAIN group_destinations
         /\ last'.chat_id \in DOMAIN chat_to_driver)
          => tasks'[last'.task].pc = "fetch_waiting"]_vars

\* C13 witness: the send_message of the alert raised; the loop is recorded
\* and asleep, and the stop is marked as alerted.
C13_Witness ==
  /\ last.op = "tick_resume" /\ ~last.delivered
  /\ last.chat_id \in DOMAIN group_update_tasks
  /\ group_update_tasks[last.chat_id] = last.task
  /\ tasks[last.task].pc = "sleep"
  /\ \E u \in DOMAIN driver_stop_times : driver_stop_times[u].notified

\* The extractions in progress: the workers inside 'with self.selenium_semaphore'.
InProgress ==
  executor.running + abandoned_jobs.running
  + Cardinality({t \in DOMAIN tasks : tasks[t].pc = "fetch_running"})
  + Cardinality({h \in DOMAIN handlers : handlers[h].pc = "fetch_running"})

\* The steps in which a worker enters the semaphore.
AcquireSteps == {"fetch_acquire", "abandoned_acquire", "worker_acquire"}

\* C11: whatever the number of jobs given to the executor by commands and by
\* loops, at most selenium_permits extractions are in progress, each holding
\* one permit; a worker enters only while fewer are in progress, so with all
\* permits taken the others stay blocked until one returns.
C11_BoundedFetches ==
  /\ [](/\ InProgress <= selenium_permits
        /\ selenium_semaphore = selenium_permits - InProgress)
  /\ [][last'.op \in AcquireSteps
          => /\ InProgress < selenium_permits
             /\ InProgress' = InProgress + 1]_vars

\* C11 witness: all permits are taken, by a loop, a command and other
\* callers; workers are blocked at the semaphore and jobs are queued behind
\* the max_workers workers of the pool.
C11_Witness ==
  /\ InProgress = selenium_permits
  /\ \E t \in DOMAIN tasks : tasks[t].pc = "fetch_running"
  /\ \E h \in DOMAIN handlers : handlers[h].pc = "fetch_running"
  /\ executor.waiting > 0
  /\ BusyWorkers >= max_workers
  /\ executor.queued > 0

\* The telemetry cache holds, for the group and the source of task t, an
\* entry that is younger than cache_duration.
FreshMemo(t) ==
  \E k \in {CacheKey(tasks[t].chat_id, tasks[t].eld_url)} :
    /\ k \in DOMAIN cache
    /\ now - cache[k].timestamp < cache_duration

\* C12: a periodic update that begins while the telemetry cache holds a
\* fresh entry for its group and source uses that entry: the loop that has
\* just woken has not submitted an extraction of its own.
C12_OneFetchWithinTTL ==
  (last.op = "loop_wake" /\ tasks[last.task].eld_url # "" /\ FreshMemo(last.task))
    => tasks[last.task].pc # "fetch_waiting"

\* The stop table after the stop tracking of an update of task with its
\* driver_data at time t.
TrackedStops(dst, task, t) ==
  check_extended_stop(
    track_driver_stop_time(dst, task.eld_url, task.driver_data, t),
    task.eld_url, t).stop_times

\* C21: an update goes on only with the driver_data of a finished extraction;
\* the stop is tracked with that driver_data in the step that goes on, before
\* any distance is calculated; the update message is sent only from a step
\* whose distance calculation returned a result, which is then the entry of
\* the distance cache written at that time; a step whose calculation
\* returned None sends nothing and the loop sleeps; the sending ends the update.
C21_TickSequential ==
  [][/\ last'.op = "tick"
          => /\ tasks[last'.task].pc = "fetched"
             /\ tasks[last'.task].driver_data \in DriverData
             /\ ~last'.offline
                  => driver_stop_times' = TrackedStops(driver_stop_times, tasks[last'.task], now)
             /\ last'.offline
                  => /\ UNCHANGED <<driver_stop_times, distance_cache, geocoding_cache>>
                     /\ tasks'[last'.task].pc = "sleep"
     /\ \A t \in DOMAIN tasks :
          (tasks[t].pc # "send" /\ tasks'[t].pc = "send")
            => /\ last'.op \in {"tick", "tick_resume"}
               /\ last'.task = t
               /\ last'.sent
               /\ tasks[t].pc \in {"fetched", "alert"}
               /\ \E k \in {<<tasks[t].chat_id, sanitize_address(tasks[t].destination)>>} :
                    /\ k \in DOMAIN distance_cache'
                    /\ distance_cache'[k].timestamp = now
     /\ (last'.op \in {"tick", "tick_resume"} /\ ~last'.sent)
          => tasks'[last'.task].pc \in {"sleep", "alert"}
     /\ (last'.op = "tick" /\ last'.alert)
          => /\ tasks'[last'.task].pc = "alert"
             /\ UNCHANGED <<distance_cache, geocoding_cache>>
     /\ last'.op = "tick_done"
          => /\ tasks[last'.task].pc = "send"
             /\ tasks'[last'.task].pc = "sleep"]_vars

\* C21 witness: the update of a stopped driver has been sent, after the stop
\* was recorded and the distance was stored.
C21_Witness ==
  /\ last.op = "tick_done" /\ last.delivered
  /\ \E u \in DOMAIN driver_stop_times : driver_stop_times[u].stopped_since = now
  /\ \E k \in DOMAIN distance_cache :
       k[1] = last.chat_id /\ distance_cache[k].timestamp = now

\* C22: a loop begins with a sleep of auto_update_interval and goes back to
\* one after every update; it wakes only when that time has passed; on waking
\* without a destination it ends and changes nothing else; on waking with
\* one (and a driver) it starts an update for the destination stored at that
\* time; hence a loop sends nothing before auto_update_interval has passed
\* since it began.
C22_SleepFirst ==
  /\ [](\A t \in DOMAIN tasks :
          tasks[t].pc = "sleep"
            => tasks[t].wake_at >= tasks[t].started_at + auto_update_interval)
  /\ [][/\ last'.op = "loop_start"
             => /\ tasks'[last'.task].pc = "sleep"
                /\ tasks'[last'.task].started_at = now
                /\ tasks'[last'.task].wake_at = now + auto_update_interval
        /\ \A t \in DOMAIN tasks :
             (tasks[t].pc # "sleep" /\ tasks'[t].pc = "sleep")
               => tasks'[t].wake_at = now + auto_update_interval
        /\ last'.op = "loop_wake"
             => /\ tasks[last'.task].pc = "sleep"
                /\ now >= tasks[last'.task].wake_at
                /\ last'.chat_id \notin DOMAIN group_destinations
                     => /\ tasks'[last'.task].pc = "done"
                        /\ UNCHANGED <<data_vars, telemetry_vars, group_destinations,
                                       group_update_tasks, handlers>>
                /\ (/\ last'.chat_id \in DOMAIN group_destinations
                    /\ last'.chat_id \in DOMAIN chat_to_driver)
                     => /\ tasks'[last'.task].pc = "fetch_waiting"
                        /\ tasks'[last'.task].destination = group_destinations[last'.chat_id]
        /\ (last'.op \in {"tick", "tick_resume"} /\ Emitted(last'))
             => now >= tasks[last'.task].started_at + auto_update_interval]_vars

\* C22 witness: a loop that is no longer recorded has woken after the
\* destination of its group was cleared, and has ended.
C22_Witness ==
  /\ last.op = "loop_wake"
  /\ tasks[last.task].pc = "done"
  /\ last.chat_id \notin DOMAIN group_destinations
  /\ now >= auto_update_interval

\* What extract_driver_data_fast returns when the extraction raised.
FetchError == [speed |-> "Error", location |-> "Error extracting data"]

\* C23: an update whose extraction failed is skipped as offline: the failed
\* driver_data opens or changes no stop and is not given to the distance
\* calculation, so the caches stay as they were.
C23_FailedFetchIsOffline ==
  [][(last'.op = "tick" /\ tasks[last'.task].driver_data.location = FetchError.location)
       => /\ last'.offline
          /\ UNCHANGED <<driver_stop_times, geocoding_cache, distance_cache>>]_vars

\* The address has an entry of the geocoding cache younger than
\* geocoding_cache_duration.
FreshGeocode(a) ==
  a \in DOMAIN geocoding_cache
    /\ now - geocoding_cache[a].timestamp < geocoding_cache_duration

\* C24: a resolution that is not served from the cache returns coordinates
\* exactly when some request returns a result, whatever raised or returned
\* nothing before it: those of the first such request, made after exactly the
\* requests before it; it returns None only after every request of every
\* provider for every variant was made; a call always returns; and after a
\* None the address has no entry and the other entries are as before.
C24_GeoFailurePolicy ==
  [][(last'.op = "geocode_attempts" /\ ~FreshGeocode(last'.address))
       => /\ last'.lat_lon # NoneLL
               <=> \E i \in 1..Len(last'.outcomes) : last'.outcomes[i] = "result"
          /\ last'.lat_lon # NoneLL
               => /\ last'.lat_lon = last'.coord
                  /\ last'.outcomes[last'.ncalls] = "result"
                  /\ \A j \in 1..(last'.ncalls - 1) : last'.outcomes[j] # "result"
          /\ last'.lat_lon = NoneLL
               => /\ last'.ncalls = Len(GeocodeAttempts(last'.address, gmaps))
                  /\ last'.address \notin DOMAIN geocoding_cache'
                  /\ \A a \in DOMAIN geocoding_cache \ {last'.address} :
                       a \in DOMAIN geocoding_cache'
                         /\ geocoding_cache'[a] = geocoding_cache[a]
                  /\ DOMAIN geocoding_cache' \subseteq DOMAIN geocoding_cache]_vars

\* C24 witness: requests raised and returned nothing in turn, through all
\* the providers and variants, before the last request answered.
C24_Witness ==
  /\ last.op = "geocode_attempts" /\ last.lat_lon # NoneLL
  /\ last.ncalls = Len(GeocodeAttempts(last.address, gmaps))
  /\ last.ncalls > 3
  /\ \E i, j \in 1..(last.ncalls - 1) :
       last.outcomes[i] = "error" /\ last.outcomes[j] = "empty"

\* The two tables agree and bind one to one: the driver of a group records
\* that group, the group a driver records maps to that driver, and no driver
\* is the driver of two groups.
ConsistentBinding(cfg, ctd) ==
  /\ \A c \in DOMAIN ctd :
       ctd[c].name \in DOMAIN cfg /\ cfg[ctd[c].name].telegram_group_id = c
  /\ \A n \in DOMAIN cfg :
       cfg[n].telegram_group_id # NoChat
         => /\ cfg[n].telegram_group_id \in DOMAIN ctd
            /\ ctd[cfg[n].telegram_group_id].name = n
  /\ \A c1, c2 \in DOMAIN ctd : ctd[c1].name = ctd[c2].name => c1 = c2

\* C25: the binding stays consistent and one to one after every call of
\* set_driver_for_group; a call that finds the driver binds the group to
\* it, leaves the group the driver came from without a driver, and leaves the
\* driver the group had before without a group; a call that does not find
\* the driver changes nothing.
C25_BindingOneToOne ==
  /\ []ConsistentBinding(drivers_config, chat_to_driver)
  /\ [][last'.op = "set_driver"
          => IF last'.driver_name \in DOMAIN drivers_config
             THEN /\ last'.chat_id \in DOMAIN chat_to_driver'
                  /\ chat_to_driver'[last'.chat_id].name = last'.driver_name
                  /\ drivers_config'[last'.driver_name].telegram_group_id = last'.chat_id
                  /\ \E old \in {drivers_config[last'.driver_name].telegram_group_id} :
                       (old # NoChat /\ old # last'.chat_id)
                         => old \notin DOMAIN chat_to_driver'
                  /\ (/\ last'.chat_id \in DOMAIN chat_to_driver
                      /\ chat_to_driver[last'.chat_id].name # last'.driver_name)
                       => drivers_config'[chat_to_driver[last'.chat_id].name].telegram_group_id
                            = NoChat
             ELSE /\ ~last'.ok
                  /\ UNCHANGED <<drivers_config, chat_to_driver>>]_vars

\* C25 witness: a driver that had a group was given to another group, and
\* exactly one group has a driver and one driver a group.
C25_Witness ==
  /\ last.op = "set_driver" /\ last.ok
  /\ Cardinality(DOMAIN chat_to_driver) = 1
  /\ Cardinality({n \in DOMAIN drivers_config :
                    drivers_config[n].telegram_group_id # NoChat}) = 1
  /\ \E c \in Chats \ {NumChats} :
       c # last.chat_id /\ last.driver_name = c

\* No command for the group c is being processed.
NoCommandFor(c) ==
  \A h \in HandlerIds : handlers[h].pc # "idle" => handlers[h].chat_id # c

\* The group c has a loop that is alive and recorded in group_update_tasks.
LiveLoopRecorded(c) ==
  /\ c \in DOMAIN group_update_tasks
  /\ tasks[group_update_tasks[c]].pc # "done"
  /\ ~tasks[group_update_tasks[c]].cancel

\* C26: when no command for a group is in progress, the group has a
\* destination exactly when it has a live loop recorded in
\* group_update_tasks; and when a /stop that found a destination is over, the
\* group has no destination, no entry in group_update_tasks and no loop alive.
C26_DestinationIffLoop ==
  /\ [](\A c \in Chats :
          NoCommandFor(c) => (c \in DOMAIN group_destinations <=> LiveLoopRecorded(c)))
  /\ [][(\/ last'.op = "stopped" /\ last'.cmd = "clear_destination"
         \/ /\ last'.op = "clear_destination" /\ ~last'.suspended
            /\ last'.chat_id \in DOMAIN group_destinations)
          => /\ last'.chat_id \notin DOMAIN group_destinations'
             /\ last'.chat_id \notin DOMAIN group_update_tasks'
             /\ \A t \in DOMAIN tasks' :
                  tasks'[t].chat_id = last'.chat_id => tasks'[t].pc = "done"]_vars

\* C26 witness: /stop is over for a group whose loop was cancelled, while the
\* other group keeps its destination and its loop.
C26_Witness ==
  /\ last.op = "stopped" /\ last.cmd = "clear_destination" /\ ~last.key_error
  /\ NoCommandInProgress
  /\ last.chat_id \notin DOMAIN group_destinations
  /\ \E t \in DOMAIN tasks : tasks[t].chat_id = last.chat_id /\ tasks[t].pc = "done"
  /\ \E c \in Chats : c # last.chat_id /\ c \in DOMAIN group_destinations
                      /\ LiveLoopRecorded(c)

\* The loops and the commands whose extraction is running in a worker.
FetchingTasks == {t \in DOMAIN tasks : tasks[t].pc = "fetch_running"}
FetchingHandlers == {h \in DOMAIN handlers : handlers[h].pc = "fetch_running"}

\* The permits taken for the extractions of loops and commands: all that are
\* taken, less those of abandoned jobs and of the jobs of other callers.
PermitsOfCoroutines ==
  selenium_permits - selenium_semaphore - abandoned_jobs.running - executor.running

\* The steps in which a loop or a command reads or writes a cache, asks a
\* provider or sends a message.
WorkSteps ==
  {"tick", "tick_resume", "tick_done", "distance", "distance_fetch", "text",
   "location", "location_fetch"}

\* C27: a permit is taken for a loop or a command exactly while its
\* extraction is running; a step that reads or writes a cache, asks a
\* provider or sends a message is never made by a loop or a command whose
\* extraction is running (each of them stays where it is), and takes or gives
\* back no permit.
C27_SlotOnlyDuringFetch ==
  /\ [](PermitsOfCoroutines = Cardinality(FetchingTasks) + Cardinality(FetchingHandlers))
  /\ [][last'.op \in WorkSteps
          => /\ selenium_semaphore' = selenium_semaphore
             /\ \A t \in FetchingTasks : tasks'[t].pc = "fetch_running"
             /\ \A h \in FetchingHandlers : handlers'[h] = handlers[h]]_vars

\* C27 witness: a loop has asked the providers and is about to send its
\* update while the extraction of a command holds the only permit taken.
C27_Witness ==
  /\ last.op = "tick" /\ last.sent
  /\ tasks[last.task].pc = "send"
  /\ FetchingHandlers # {}
  /\ selenium_semaphore = selenium_permits - 1

\* C28: a call of track_driver_stop_time with a speed that cannot be parsed
\* has status Unknown and speed 0 and leaves the stop table as the same call
\* with "0.0 mph" would: a source without episode gets one that begins now, a
\* source with an episode keeps its stopped_since and its notified flag.
C28_UnparseableIsStopped ==
  [][(last'.op = "track" /\ ParseSpeed(last'.speed_str) = -1)
       => /\ last'.status = "Unknown" /\ last'.speed = 0
          /\ driver_stop_times'
               = track_driver_stop_time(driver_stop_times, last'.eld_url,
                                        [speed |-> "0.0 mph", location |-> last'.location],
                                        now)
          /\ last'.eld_url \in DOMAIN driver_stop_times'
          /\ IF last'.eld_url \in DOMAIN driver_stop_times
             THEN /\ driver_stop_times'[last'.eld_url].stopped_since
                       = driver_stop_times[last'.eld_url].stopped_since
                  /\ driver_stop_times'[last'.eld_url].notified
                       = driver_stop_times[last'.eld_url].notified
             ELSE /\ driver_stop_times'[last'.eld_url].stopped_since = now
                  /\ ~driver_stop_times'[last'.eld_url].notified]_vars

\* C28 witness: a reading "N/A" of a source whose episode is past the
\* threshold and was alerted; the episode is kept.
C28_Witness ==
  /\ last.op = "track" /\ last.speed_str = "N/A"
  /\ last.eld_url \in DOMAIN driver_stop_times
  /\ now - driver_stop_times[last.eld_url].stopped_since >= extended_stop_threshold
  /\ driver_stop_times[last.eld_url].notified

\* The text the claim describes for a duration, followed by suffix: from 60
\* minutes on, the nearest number of hours with one decimal and " hr";
\* below, the nearest whole number of minutes and " min".
IsDurationText(text, duration_seconds, suffix) ==
  IF duration_seconds >= 3600
  THEN \E t \in 0..(duration_seconds \div 360 + 1) :
         /\ 360 * t - 180 <= duration_seconds /\ duration_seconds <= 360 * t + 180
         /\ text = ToString(t \div 10) \o "." \o ToString(t % 10) \o " hr" \o suffix
  ELSE \E n \in 0..60 :
         /\ 60 * n - 30 <= duration_seconds /\ duration_seconds <= 60 * n + 30
         /\ text = ToString(n) \o " min" \o suffix

WrittenKeys ==
  {k \in DOMAIN distance_cache' :
     k \notin DOMAIN distance_cache \/ distance_cache'[k] # distance_cache[k]}

\* C30: the caches change only in the one step in which an update or a
\* command computes its distance, and that step loses nothing: no entry of the
\* distance cache disappears, at most one key is written, with the time of
\* the step, and over a fresh entry only a distance that is not larger than
\* the one in the cache at that moment; a fresh entry of the geocoding cache
\* is neither replaced nor removed, and what is written there carries the
\* time of the step.
C30_CachesNotCorrupted ==
  [][/\ (distance_cache' # distance_cache \/ geocoding_cache' # geocoding_cache)
          => last'.op \in {"tick", "tick_resume", "distance", "text"}
     /\ DOMAIN distance_cache \subseteq DOMAIN distance_cache'
     /\ Cardinality(WrittenKeys) <= 1
     /\ \A k \in WrittenKeys :
          /\ distance_cache'[k].timestamp = now
          /\ (/\ k \in DOMAIN distance_cache
              /\ now - distance_cache[k].timestamp < distance_cache_duration)
               => distance_cache'[k].distance <= distance_cache[k].distance
     /\ \A a \in DOMAIN geocoding_cache :
          now - geocoding_cache[a].timestamp < geocoding_cache_duration
            => a \in DOMAIN geocoding_cache' /\ geocoding_cache'[a] = geocoding_cache[a]
     /\ \A a \in DOMAIN geocoding_cache' :
          (a \notin DOMAIN geocoding_cache \/ geocoding_cache'[a] # geocoding_cache[a])
            => geocoding_cache'[a].timestamp = now]_vars

\* C30 witness: an update has computed its distance while a /distance command
\* for the same group and destination waits for its extraction; the entry of
\* their key is the one the update wrote, next to the entry of another
\* destination and to geocoded addresses.
C30_Witness ==
  /\ last.op = "tick" /\ last.sent
  /\ \E h \in DOMAIN handlers :
       /\ handlers[h].pc \in {"fetch_waiting", "fetch_running", "fetched"}
       /\ handlers[h].cmd = "distance"
       /\ handlers[h].chat_id = last.chat_id
       /\ handlers[h].destination = tasks[last.task].destination
       /\ <<last.chat_id, handlers[h].destination>> \in DOMAIN distance_cache
       /\ distance_cache[<<last.chat_id, handlers[h].destination>>].timestamp = now
  /\ Cardinality(DOMAIN distance_cache) > 1
  /\ geocoding_cache # EmptyDict

\* The rank of a kind of request: Google Maps, then Nominatim free text,
\* structured, city and state.
ProviderRank(provider) ==
  CASE provider = "google" -> 1
    [] provider = "nominatim" -> 2
    [] provider = "nominatim_structured" -> 3
    [] OTHER -> 4

\* The kind of request provider is made for the variant v of an address.
Applicable(provider, v) ==
  CASE provider = "google" -> gmaps
    [] provider = "nominatim" -> TRUE
    [] provider = "nominatim_structured" -> StructuredMatch(v)
    [] OTHER -> CityStateMatch(v)

\* The variants of an address, as a set.
Variants(address) ==
  {parse_and_clean_address(address)[i] : i \in 1..Len(parse_and_clean_address(address))}

\* C31: a resolution that asks providers makes no request after the first
\* one that returns a result and returns that result, stored under the
\* address of the call and under no variant; its requests go by rank, and a
\* request of some rank is made only after every variant was asked of every
\* kind of request of a higher rank that applies to it.
C31_FirstResultWins ==
  (last.op = "geocode_attempts" /\ last.ncalls > 0)
    => /\ \A i \in 1..(last.ncalls - 1) : last.outcomes[i] # "result"
       /\ IF last.outcomes[last.ncalls] = "result"
          THEN /\ last.lat_lon = last.coord
               /\ last.address \in DOMAIN geocoding_cache
               /\ geocoding_cache[last.address] = [lat_lon |-> last.coord, timestamp |-> now]
               /\ \A v \in Variants(last.address) \ {last.address} :
                    v \notin DOMAIN geocoding_cache
          ELSE /\ last.lat_lon = NoneLL
               /\ last.ncalls = Len(last.outcomes)
       /\ \A i, j \in 1..last.ncalls :
            i < j => ProviderRank(last.calls[i].provider) <= ProviderRank(last.calls[j].provider)
       /\ \A j \in 1..last.ncalls :
            \A p \in {"google", "nominatim", "nominatim_structured", "nominatim_city"} :
              \A v \in Variants(last.address) :
                (ProviderRank(p) < ProviderRank(last.calls[j].provider) /\ Applicable(p, v))
                  => \E i \in 1..(j - 1) : last.calls[i] = [provider |-> p, query |-> v]

\* C31 witness: Google Maps missed on the three variants of an address and
\* Nominatim answered for the second; five requests were made and the result
\* is stored under the address.
C31_Witness ==
  /\ last.op = "geocode_attempts" /\ last.ncalls = 5
  /\ last.calls[5] = [provider |-> "nominatim", query |-> "Main St, Troy, NY"]
  /\ last.lat_lon = last.coord
  /\ last.address = "12 Main St, Troy, NY"
  /\ last.address \in DOMAIN geocoding_cache
  /\ "Main St, Troy, NY" \notin DOMAIN geocoding_cache

\* The key of the telemetry cache for the group c and the source it has now.
MemoKeyOf(c) == <<"location", c, get_eld_url_for_group(chat_to_driver, c)>>

\* C32: a command is answered from the telemetry cache only with the entry
\* stored under its own group and source, and only while that entry is
\* younger than cache_duration; a command that finds no such entry, also when
\* another group has a fresh entry for the same source, goes on to an
\* extraction and leaves no entry under its key; and an entry is written only
\* under the group and the source of the command that extracted it, with the
\* time of the write.
C32_MemoKeyedPerGroup ==
  [][/\ (last'.op = "location" /\ last'.answered /\ NoCommandInProgress)
          => /\ MemoKeyOf(last'.chat_id) \in DOMAIN cache
             /\ now - cache[MemoKeyOf(last'.chat_id)].timestamp < cache_duration
             /\ last'.driver_data = cache[MemoKeyOf(last'.chat_id)].data
             /\ cache' = cache
     /\ last'.op = "location_fetch"
          => /\ MemoKeyOf(last'.chat_id) \in DOMAIN cache
                  => now - cache[MemoKeyOf(last'.chat_id)].timestamp >= cache_duration
             /\ MemoKeyOf(last'.chat_id) \notin DOMAIN cache'
             /\ \A k \in DOMAIN cache \ {MemoKeyOf(last'.chat_id)} :
                  k \in DOMAIN cache' /\ cache'[k] = cache[k]
     /\ \A k \in DOMAIN cache' :
          (k \notin DOMAIN cache \/ cache'[k] # cache[k])
            => /\ last'.op = "location"
               /\ k[2] = last'.chat_id
               /\ \E h \in HandlerIds :
                    handlers[h].pc = "fetched" /\ handlers[h].chat_id = k[2]
                      /\ handlers[h].eld_url = k[3]
                      /\ cache'[k] = [data |-> handlers[h].driver_data, timestamp |-> now]]_vars

\* C32 witness: two groups have the same source; /location of one group goes
\* on to an extraction while the other group's entry for that source is fresh.
C32_Witness ==
  /\ last.op = "location_fetch"
  /\ \E c \in Chats \ {last.chat_id} :
       /\ MemoKeyOf(c)[3] = MemoKeyOf(last.chat_id)[3]
       /\ MemoKeyOf(c) \in DOMAIN cache
       /\ now - cache[MemoKeyOf(c)].timestamp < cache_duration

C34_FailedQueryLeavesSchedule ==
  [][/\ (/\ last'.op \in {"distance", "text"}
         /\ ~last'.suspended
         /\ ~(last'.answered /\ last'.delivered))
          => UNCHANGED <<group_destinations, group_update_tasks, tasks>>
     /\ (/\ last'.op = "stopped"
         /\ last'.cmd \in {"distance", "text"}
         /\ ~last'.delivered)
          => UNCHANGED <<group_destinations, group_update_tasks, tasks>>
     /\ (last'.op \in {"distance", "text"} /\ group_destinations' # group_destinations)
          => last'.answered]_vars

\* C35: when only the loop of a group calculates distances for it (the
\* destination is set by /setdestination, never by a query), the entry of
\* the distance cache that an update finds is the one its previous update
\* wrote, at least auto_update_interval ago and so no longer fresh: the
\* check of is_distance_valid cannot reject the distance of an update, also
\* after the loop was restarted.
C35_TickNeverRejected ==
  [][last'.op \in {"tick", "tick_resume"}
       => \A k \in DOMAIN distance_cache :
            /\ now - distance_cache[k].timestamp >= auto_update_interval
            /\ auto_update_interval > distance_cache_duration
            /\ ~(now - distance_cache[k].timestamp < distance_cache_duration)
            /\ \A d \in {distance_cache[k].distance + 1} :
                 is_distance_valid(distance_cache, k[1], k[2], d, "", now).valid]_vars

\* C35 witness: the loop was restarted between two updates, half an
\* interval after the first; the second update found the entry of the first,
\* one interval and a half old, and replaced it.
C35_Witness ==
  /\ last.op = "tick" /\ last.sent
  /\ last.task > 1
  /\ last.cached_age = 3 * (auto_update_interval \div 2)

\* C36: the alert is raised only by an update of a loop, for a stop that was
\* in the table before the update, opened extended_stop_threshold or longer
\* ago and not notified; a stop is opened with stopped_since = now and
\* notified = FALSE, keeps its stopped_since, and is removed by every reading
\* of a moving driver, so the reading that opens a stop raises no alert and
\* no reading of a moving driver lies between the opening and the alert.
\* No other step sets notified.
C36_AlertNeedsEarlierStop ==
  [][/\ (last'.op = "tick" /\ last'.alert)
          => \E u \in {tasks[last'.task].eld_url} :
               /\ u \in DOMAIN driver_stop_times
               /\ now - driver_stop_times[u].stopped_since >= extended_stop_threshold
               /\ ~driver_stop_times[u].notified
               /\ driver_stop_times' = [driver_stop_times EXCEPT ![u].notified = TRUE]
     /\ \A u \in DOMAIN driver_stop_times' :
          /\ u \notin DOMAIN driver_stop_times
               => driver_stop_times'[u] =
                    [stopped_since |-> now, location |-> driver_stop_times'[u].location,
                     notified |-> FALSE]
          /\ u \in DOMAIN driver_stop_times
               => driver_stop_times'[u].stopped_since = driver_stop_times[u].stopped_since
          /\ (driver_stop_times'[u].notified
              /\ ~(u \in DOMAIN driver_stop_times /\ driver_stop_times[u].notified))
               => (last'.op = "tick" /\ last'.alert /\ tasks[last'.task].eld_url = u)
     /\ (last'.op = "location" /\ last'.answered
         /\ get_driver_status(last'.driver_data).speed > 0)
          => \A h \in DOMAIN handlers :
               handlers[h].pc # "idle" => handlers[h].eld_url \notin DOMAIN driver_stop_times'
     /\ last'.op \in {"location", "location_fetch", "set_destination", "set_driver"}
          => \A u \in DOMAIN driver_stop_times' :
               driver_stop_times'[u].notified
                 => u \in DOMAIN driver_stop_times /\ driver_stop_times[u].notified]_vars

\* C36 witness: /location found the driver stopped and opened the stop; the
\* update of the loop extended_stop_threshold later raised the alert.
C36_Witness ==
  /\ last.op = "tick" /\ last.alert
  /\ \E u \in DOMAIN driver_stop_times :
       /\ driver_stop_times[u].notified
       /\ driver_stop_times[u].stopped_since = now - extended_stop_threshold
       /\ driver_stop_times[u].stopped_since > 0

\* The loops of a group that have not ended and were not asked to.
LiveLoopsOf(tk, c) ==
  {t \in DOMAIN tk : tk[t].chat_id = c /\ tk[t].pc # "done" /\ ~tk[t].cancel}
LiveLoops(c) == LiveLoopsOf(tasks, c)

C38_OnlyDeniedDisables ==
  [][(last'.op = "resolve" /\ gmaps_distance_matrix_available
      /\ last'.gm # "NOT_CALLED")
       => (~gmaps_distance_matrix_available' <=> last'.gm = "REQUEST_DENIED")]_vars

\* C39: the stop table has one entry per ELD URL, read and written by the
\* updates of every group whose driver has that URL.  While the entry stays
\* in the table its mark stays set, and an update that finds the mark set
\* raises no alert: of the groups that share the URL, only the one whose
\* update is the first to find the stop extended_stop_threshold old gets
\* the alert of that stop.
C39_OneAlertPerSharedStop ==
  [][/\ \A u \in DOMAIN driver_stop_times \cap DOMAIN driver_stop_times' :
          driver_stop_times[u].notified
            => /\ driver_stop_times'[u].notified
               /\ driver_stop_times'[u].stopped_since = driver_stop_times[u].stopped_since
     /\ (last'.op = "tick" /\ ~last'.offline)
          => \E u \in {get_eld_url_for_group(chat_to_driver, last'.chat_id)} :
               /\ tasks[last'.task].eld_url = u
               /\ \A v \in (DOMAIN driver_stop_times \cup DOMAIN driver_stop_times') \ {u} :
                    /\ v \in DOMAIN driver_stop_times /\ v \in DOMAIN driver_stop_times'
                    /\ driver_stop_times'[v] = driver_stop_times[v]
               /\ (u \in DOMAIN driver_stop_times /\ driver_stop_times[u].notified)
                    => ~last'.alert
               /\ last'.alert
                    => /\ ~driver_stop_times[u].notified
                       /\ driver_stop_times'[u].notified]_vars

\* C39 witness: two groups have drivers with the same ELD URL; the update of
\* one group has raised the alert of the stop, and the update of the other
\* group finds the same stop, marked, and raises none.
C39_Witness ==
  /\ last.op = "tick" /\ ~last.offline /\ ~last.alert
  /\ \E u \in DOMAIN driver_stop_times :
       /\ driver_stop_times[u].notified
       /\ now - driver_stop_times[u].stopped_since >= extended_stop_threshold
       /\ \A c \in Chats : get_eld_url_for_group(chat_to_driver, c) = u
  /\ \E t \in DOMAIN tasks :
       /\ tasks[t].chat_id # last.chat_id
       /\ tasks[t].pc = "sleep" /\ tasks[t].wake_at > now

\* C40: an update of a group that has a destination but no driver ends
\* before the extraction: nothing is fetched, tracked, calculated or sent,
\* and the loop sleeps again.  An update whose driver_data has no location
\* ends after the extraction: nothing is tracked, calculated or sent, the
\* stop table and the caches stay as they were, and the loop sleeps again.
C40_SkippedUpdateChangesNothing ==
  [][/\ (/\ last'.op = "loop_wake"
         /\ last'.chat_id \in DOMAIN group_destinations
         /\ last'.chat_id \notin DOMAIN chat_to_driver)
          => /\ tasks'[last'.task] = Sleeping(tasks[last'.task], now)
             /\ tasks'[last'.task].pc = "sleep"
             /\ tasks'[last'.task].wake_at = now + auto_update_interval
             /\ UNCHANGED <<data_vars, telemetry_vars, group_destinations,
                            group_update_tasks, handlers>>
     /\ (/\ last'.op = "tick"
         /\ IsOffline(tasks[last'.task].driver_data.location))
          => /\ last'.offline /\ ~last'.alert /\ ~last'.sent
             /\ tasks'[last'.task].pc = "sleep"
             /\ tasks'[last'.task].wake_at = now + auto_update_interval
             /\ UNCHANGED <<data_vars, telemetry_vars, group_destinations,
                            group_update_tasks, handlers>>
     /\ \A t \in DOMAIN tasks :
          (tasks[t].pc = "sleep" /\ tasks'[t].pc \in {"fetch_waiting", "fetch_running"})
            => tasks[t].chat_id \in DOMAIN chat_to_driver]_vars

\* C40 witness: the loop of a group without driver has woken and sleeps
\* again, and the update of the other group found its driver offline.
C40_Witness ==
  /\ last.op = "tick" /\ last.offline
  /\ \E t \in DOMAIN tasks :
       /\ tasks[t].chat_id \notin DOMAIN chat_to_driver
       /\ tasks[t].chat_id \in DOMAIN group_destinations
       /\ tasks[t].pc = "sleep"
       /\ tasks[t].wake_at = now + auto_update_interval
       /\ now >= auto_update_interval

====
